---- MODULE Spec2Model ----
(***************************************************************************)
(* FreshFlow AI back-end: the three path dispatchers (agrioptimize,        *)
(* logifresh, marketflow) and the stand-alone HTTP functions, as one       *)
(* request/response state machine over the shared warehouse.               *)
(*                                                                         *)
(* One request is received by one handler, which runs to completion: an    *)
(* action per entry point takes the request and the outcome of every       *)
(* warehouse or web call the handler makes (chosen by the environment) and *)
(* yields the response, the log of calls and the rows added.               *)
(***************************************************************************)
EXTENDS Integers, Sequences, FiniteSets, TLC

\* pc: "idle" before the request, "done" after it; request: the request served; env: what
\* the environment answered to the calls of that request; response, calls: the handler's
\* answer and the calls it made; tables: the rows sent to the warehouse; uuids: the
\* number of uuid4() values drawn so far
VARIABLES pc, request, env, response, calls, tables, uuids, served, process

vars == <<pc, request, env, response, calls, tables, uuids, served, process>>

(***************************************************************************)
(* JSON values as Python sees them.  Every value is a record of one shape: *)
(* t the type, s the text of a string, n the number (an int as itself, a   *)
(* float in tenths), l the elements of a list.                             *)
(***************************************************************************)
Absent == [t |-> "absent", s |-> "", n |-> 0, l |-> <<>>]
Null == [t |-> "null", s |-> "", n |-> 0, l |-> <<>>]
JStr(x) == [t |-> "str", s |-> x, n |-> 0, l |-> <<>>]
JInt(k) == [t |-> "int", s |-> "", n |-> k, l |-> <<>>]
JFloat(tenths) == [t |-> "float", s |-> "", n |-> tenths, l |-> <<>>]
JBool(b) == [t |-> "bool", s |-> "", n |-> IF b THEN 1 ELSE 0, l |-> <<>>]
JList(xs) == [t |-> "list", s |-> "", n |-> 0, l |-> xs]
Item(pid, qty) == [t |-> "obj", s |-> "", n |-> 0, l |-> <<>>, product_id |-> pid, quantity_kg |-> qty]

\* Python truth value of a JSON value (None, "", 0, 0.0, False, [] are falsy).
Truthy(v) ==
    CASE v.t \in {"absent", "null"} -> FALSE
      [] v.t = "str" -> v.s # ""
      [] v.t \in {"int", "float", "bool"} -> v.n # 0
      [] v.t = "list" -> Len(v.l) > 0
      [] OTHER -> TRUE

(***************************************************************************)
(* A request body as request.get_json(silent=True) returns it: None, a     *)
(* JSON object (f maps each field the handler looks at to its value,       *)
(* Absent when the key is not there), a JSON array or string (has: the     *)
(* texts that `x in data` finds in it), or a number.                       *)
(***************************************************************************)
NoneBody == [kind |-> "none", f |-> <<>>, has |-> {}, n |-> 0]
ObjBody(f) == [kind |-> "object", f |-> f, has |-> {}, n |-> 0]
ArrBody(has) == [kind |-> "array", f |-> <<>>, has |-> has, n |-> 0]
NumBody(k) == [kind |-> "number", f |-> <<>>, has |-> {}, n |-> k]

\* `not data`
NotData(d) ==
    CASE d.kind = "none" -> TRUE
      [] d.kind = "object" -> \A k \in DOMAIN d.f : d.f[k] = Absent
      [] d.kind = "array" -> d.has = {}
      [] OTHER -> d.n = 0

\* `field in data` raises TypeError on a number
InRaises(d) == d.kind = "number"

\* `field in data`
In(d, k) ==
    CASE d.kind = "object" -> k \in DOMAIN d.f /\ d.f[k] # Absent
      [] d.kind = "array" -> k \in d.has
      [] OTHER -> FALSE

\* data.get(k): the value, None when the key is not there (objects only)
Get(d, k) == IF In(d, k) THEN d.f[k] ELSE Null

\* data.get(k, default)
GetOr(d, k, default) == IF In(d, k) THEN d.f[k] ELSE default

(***************************************************************************)
(* Python conversions.  Each gives [ok, v, exc]: the converted value, or   *)
(* the exception the conversion raises.                                    *)
(***************************************************************************)
Ok(v) == [ok |-> TRUE, v |-> v, exc |-> ""]
Raises(exc) == [ok |-> FALSE, v |-> Null, exc |-> exc]

\* texts int() and float() parse, with their value in tenths
NumericText == [x \in {"12", " 7 ", "12.5"} |-> CASE x = "12" -> 120 [] x = " 7 " -> 70 [] OTHER -> 125]

\* truncation toward zero of a number given in tenths
Trunc(tenths) == IF tenths >= 0 THEN tenths \div 10 ELSE -((-tenths) \div 10)

\* int(v)
PyInt(v) ==
    CASE v.t = "int" -> Ok(JInt(v.n))
      [] v.t = "bool" -> Ok(JInt(v.n))
      [] v.t = "float" -> Ok(JInt(Trunc(v.n)))
      [] v.t = "str" ->
           IF v.s \in DOMAIN NumericText /\ NumericText[v.s] % 10 = 0
           THEN Ok(JInt(NumericText[v.s] \div 10))
           ELSE Raises("ValueError")
      [] OTHER -> Raises("TypeError")

\* float(v)
PyFloat(v) ==
    CASE v.t = "int" -> Ok(JFloat(v.n * 10))
      [] v.t = "bool" -> Ok(JFloat(v.n * 10))
      [] v.t = "float" -> Ok(v)
      [] v.t = "str" ->
           IF v.s \in DOMAIN NumericText THEN Ok(JFloat(NumericText[v.s])) ELSE Raises("ValueError")
      [] OTHER -> Raises("TypeError")

\* texts datetime.strptime(x, '%Y-%m-%d') parses, with date.isoformat() of the result
DateText == [x \in {"2025-01-15", "2025-1-5", "2025-02-01"} |-> IF x = "2025-1-5" THEN "2025-01-05" ELSE x]

\* datetime.strptime(v, '%Y-%m-%d').date().isoformat()
PyDateIso(v) ==
    IF v.t # "str" THEN Raises("TypeError")
    ELSE IF v.s \in DOMAIN DateText THEN Ok(JStr(DateText[v.s])) ELSE Raises("ValueError")

\* texts datetime.fromisoformat(x.replace('Z', '+00:00')) parses, with isoformat() of the result
TimestampText == [x \in {"2025-01-15T10:00:00Z"} |-> "2025-01-15T10:00:00+00:00"]

\* datetime.fromisoformat(v.replace('Z', '+00:00')).isoformat()
PyTimestampIso(v) ==
    IF v.t # "str" THEN Raises("AttributeError")
    ELSE IF v.s \in DOMAIN TimestampText THEN Ok(JStr(TimestampText[v.s])) ELSE Raises("ValueError")

\* the exception is one of those an `except (ValueError, TypeError)` clause catches
CaughtNarrow(r) == r.exc \in {"ValueError", "TypeError"}

(***************************************************************************)
(* The warehouse client.  The environment decides each call: exc is "" on  *)
(* success, else the class of the exception the client raises.             *)
(***************************************************************************)
FetchExcs == {"NotFound", "GoogleAPIError", "Exception"}

\* str(e) of the exception the client raised
StrE(exc) ==
    CASE exc = "NotFound" -> "404 Not found: Table"
      [] exc = "GoogleAPIError" -> "400 Bad request"
      [] exc = "RowErrors" -> "no such field"
      [] OTHER -> "connection reset"

\* a query result as the environment gives it
Rows(rows) == [exc |-> "", rows |-> rows]
Fails(exc) == [exc |-> exc, rows |-> <<>>]

\* fetch_rows: (True, rows) or (False, error text)
fetch_rows(out) ==
    IF out.exc = "" THEN [ok |-> TRUE, rows |-> out.rows, err |-> ""]
    ELSE IF out.exc = "NotFound"
         THEN [ok |-> FALSE, rows |-> <<>>, err |-> "BigQuery table not found needed for query."]
         ELSE [ok |-> FALSE, rows |-> <<>>, err |-> StrE(out.exc)]

\* truth value of the second component of fetch_rows' result (a list, or an error text)
ResultTruthy(r) == IF r.ok THEN Len(r.rows) > 0 ELSE r.err # ""

InsertOuts == {"", "RowErrors", "NotFound", "GoogleAPIError", "Exception"}

\* insert_rows: (True, None) or (False, error text)
insert_rows(table, out) ==
    CASE out = "" -> [ok |-> TRUE, err |-> ""]
      [] out = "RowErrors" -> [ok |-> FALSE, err |-> StrE("RowErrors")]
      [] out = "NotFound" -> [ok |-> FALSE, err |-> "BigQuery table not found: " \o table]
      [] OTHER -> [ok |-> FALSE, err |-> StrE(out)]

\* SQL text: the table, the SELECT list, the WHERE clauses (joined by AND) and the rest
Sql(table, select, where, rest) == [table |-> table, select |-> select, where |-> where, rest |-> rest]
NoSql == Sql("", "", <<>>, "")

\* bigquery.ScalarQueryParameter / ArrayQueryParameter
Param(name, type, value) == [name |-> name, type |-> type, value |-> value]

\* one entry of the log of calls a request made
QueryCall(slot, sql, params, out) ==
    [op |-> "query", slot |-> slot, sql |-> sql, params |-> params, rows |-> <<>>, exc |-> out.exc]
InsertCall(table, rows, out) ==
    [op |-> "insert", slot |-> table, sql |-> NoSql, params |-> <<>>, rows |-> rows, exc |-> out]
WebCall(op, slot, arg, exc) ==
    [op |-> op, slot |-> slot, sql |-> NoSql, params |-> <<arg>>, rows |-> <<>>, exc |-> exc]

(***************************************************************************)
(* Responses.  A handler ends with (body, status) or by an exception that  *)
(* nothing in it catches.                                                  *)
(***************************************************************************)
Msg(text, args) == [text |-> text, args |-> args]
NoMsg == Msg("", <<>>)
NoPayload == [kind |-> "none"]

Body(status, message, details, payload) ==
    [status |-> status, message |-> message, error |-> NoMsg, details |-> details, payload |-> payload]
ErrorBody(error, details, payload) ==
    [status |-> "", message |-> NoMsg, error |-> error, details |-> details, payload |-> payload]
NoBody == Body("", NoMsg, <<>>, NoPayload)

Resp(status, body) == [raised |-> "", status |-> status, body |-> body]
Crash(exc) == [raised |-> exc, status |-> 0, body |-> NoBody]
NoResp == Resp(0, NoBody)

\* one entry of `details`: the label the handler puts before the error text, and the text
Detail(label, err) == [label |-> label, err |-> err]

\* what a handler did: its response, the calls it made, the uuid4() values it drew
Outcome(resp, made, drawn) == [resp |-> resp, calls |-> made, uuids |-> drawn]

\* A variant of MissingFields that stops at the first missing field.
MissingFieldsFirstOnly(data, required) ==
    LET all == SelectSeq(required, LAMBDA k : NotData(data) \/ ~In(data, k))
    IN  IF all = <<>> THEN <<>> ELSE <<Head(all)>>

\* ', '.join(missing): the required fields that `data` lacks, in declaration order
MissingFields(data, required) ==
    SelectSeq(required, LAMBDA k : NotData(data) \/ ~In(data, k))

\* the check every handler with required fields starts with:
\* `if not data or not all(field in data for field in required_fields)`
RequiredCheck(data, required) ==
    IF NotData(data) THEN "missing"
    ELSE IF InRaises(data) THEN "raise"
    ELSE IF \E i \in 1..Len(required) : ~In(data, required[i]) THEN "missing"
    ELSE "pass"

MissingBody(data, required) ==
    Body("error", Msg("Missing required fields in body: ", MissingFields(data, required)), <<>>, NoPayload)

(***************************************************************************)
(* agrioptimize/main.py                                                    *)
(***************************************************************************)
\* date.today().isoformat()
Today == "2025-01-15"

\* the rows a list query can give back: none, or some
SomeRow == [id |-> 1]
ListOuts == {Rows(<<>>), Rows(<<SomeRow>>)} \cup {Fails(e) : e \in FetchExcs}

InternalError(text) == Resp(500, Body("error", Msg(text, <<>>), <<>>, NoPayload))
Invalid(text) == Resp(400, Body("error", Msg(text, <<>>), <<>>, NoPayload))

handle_log_harvest(data, u, ins) ==
    LET required == <<"farm_id", "product_id", "harvested_quantity_kg", "harvest_date">>
        chk == RequiredCheck(data, required)
        hd == PyDateIso(data.f["harvest_date"])
        qty == PyInt(Get(data, "harvested_quantity_kg"))
        est == Get(data, "estimated_yield_kg")
        qs == Get(data, "quality_score")
        pd == Get(data, "planting_date")
        row == [harvest_id |-> u + 1,
                farm_id |-> data.f["farm_id"],
                product_id |-> data.f["product_id"],
                harvest_date |-> hd.v,
                harvested_quantity_kg |-> qty.v,
                estimated_yield_kg |-> IF est = Null THEN Null ELSE PyInt(est).v,
                quality_score |-> IF qs = Null THEN Null ELSE PyFloat(qs).v,
                planting_date |-> pd]
        r == insert_rows("harvest_records", ins)
        made == <<InsertCall("harvest_records", <<row>>, ins)>>
    IN  IF chk = "missing" THEN Outcome(Resp(400, MissingBody(data, required)), <<>>, 0)
        ELSE IF chk = "raise" THEN Outcome(Crash("TypeError"), <<>>, 0)
        ELSE IF data.kind # "object" \/ ~hd.ok
        THEN Outcome(Invalid("Invalid harvest_date format. Expected YYYY-MM-DD."), <<>>, 0)
        ELSE IF ~qty.ok
        THEN Outcome(Invalid("Invalid format for harvested_quantity_kg. Expected integer."), <<>>, 1)
        ELSE IF est # Null /\ ~PyInt(est).ok
        THEN Outcome(Invalid("Invalid format for estimated_yield_kg. Expected integer."), <<>>, 1)
        ELSE IF qs # Null /\ ~PyFloat(qs).ok
        THEN Outcome(Invalid("Invalid format for quality_score. Expected number."), <<>>, 1)
        ELSE IF pd # Null /\ ~PyDateIso(pd).ok
        THEN Outcome(Invalid("Invalid planting_date format. Expected YYYY-MM-DD."), <<>>, 1)
        ELSE IF r.ok
        THEN Outcome(Resp(200, Body("success", Msg("Harvest record logged successfully.", <<>>), <<>>,
                                    [kind |-> "id", id |-> row.harvest_id])), made, 1)
        ELSE Outcome(Resp(500, Body("error", Msg("Failed to log harvest record.", <<>>),
                                    <<Detail("", r.err)>>, NoPayload)), made, 1)

\* the WHERE clauses and parameters of the three advice queries
AdviceDateClauses(column, sd, ed) ==
    IF Truthy(sd) /\ Truthy(ed) THEN <<column \o " BETWEEN @start_date AND @end_date">>
    ELSE IF Truthy(sd) THEN <<column \o " >= @start_date">>
    ELSE IF Truthy(ed) THEN <<column \o " <= @end_date">>
    ELSE <<column \o " >= DATE_SUB(CURRENT_DATE(), INTERVAL 90 DAY)">>

AdviceDateParams(sd, ed) ==
    IF Truthy(sd) /\ Truthy(ed) THEN <<Param("start_date", "DATE", sd), Param("end_date", "DATE", ed)>>
    ELSE IF Truthy(sd) THEN <<Param("start_date", "DATE", sd)>>
    ELSE IF Truthy(ed) THEN <<Param("end_date", "DATE", ed)>>
    ELSE <<>>

AdviceFilter(v, clause, name) ==
    IF Truthy(v) THEN [where |-> <<clause>>, params |-> <<Param(name, "STRING", v)>>]
    ELSE [where |-> <<>>, params |-> <<>>]

harvest_query(farm_id, product_id, sd, ed) ==
    LET a == AdviceFilter(farm_id, "farm_id = @farm_id_h", "farm_id_h")
        b == AdviceFilter(product_id, "product_id = @product_id_h", "product_id_h")
    IN  [sql |-> Sql("harvest_records", "harvest_date, harvested_quantity_kg, quality_score, quality_notes",
                     a.where \o b.where \o AdviceDateClauses("harvest_date", sd, ed),
                     "ORDER BY harvest_date DESC LIMIT 5"),
         params |-> a.params \o b.params \o AdviceDateParams(sd, ed)]

qc_query(farm_id, product_id, sd, ed) ==
    LET a == AdviceFilter(farm_id, "farm_id = @farm_id_qc", "farm_id_qc")
        b == AdviceFilter(product_id, "(product_id IS NULL OR product_id = @product_id_qc)", "product_id_qc")
    IN  [sql |-> Sql("farm_qc_issues", "issue_date, issue_type, severity, notes",
                     a.where \o b.where \o AdviceDateClauses("issue_date", sd, ed),
                     "ORDER BY issue_date DESC LIMIT 5"),
         params |-> a.params \o b.params \o AdviceDateParams(sd, ed)]

schedule_query(farm_id, product_id) ==
    LET a == AdviceFilter(farm_id, "farm_id = @farm_id_sched", "farm_id_sched")
        b == AdviceFilter(product_id, "product_id = @product_id_sched", "product_id_sched")
    IN  [sql |-> Sql("planting_schedules",
                     "planned_planting_date, planned_harvest_date_estimate, expected_yield_estimate_kg, status",
                     <<"planned_harvest_date_estimate >= CURRENT_DATE()">> \o a.where \o b.where,
                     "ORDER BY planned_planting_date ASC LIMIT 5"),
         params |-> a.params \o b.params]

farm_query(farm_id) ==
    [sql |-> Sql("farm_profiles", "farm_name, farm_location, primary_crops_grown",
                 <<"farm_id = @farm_id_f">>, "LIMIT 1"),
     params |-> <<Param("farm_id_f", "STRING", farm_id)>>]

handle_get_harvest_advice(data, oh, oq, os, of) ==
    LET farm_id == Get(data, "farm_id")
        product_id == Get(data, "product_id")
        sd == Get(data, "start_date")
        ed == Get(data, "end_date")
        hq == harvest_query(farm_id, product_id, sd, ed)
        qq == qc_query(farm_id, product_id, sd, ed)
        sq == schedule_query(farm_id, product_id)
        fq == farm_query(farm_id)
        h == fetch_rows(oh)
        q == fetch_rows(oq)
        s == fetch_rows(os)
        f == IF Truthy(farm_id) THEN fetch_rows(of) ELSE fetch_rows(Rows(<<>>))
        farm_details == IF f.ok /\ Len(f.rows) > 0 THEN <<f.rows[1]>> ELSE <<>>
        made == <<QueryCall("harvest", hq.sql, hq.params, oh),
                  QueryCall("qc", qq.sql, qq.params, oq),
                  QueryCall("schedule", sq.sql, sq.params, os)>>
                \o (IF Truthy(farm_id) THEN <<QueryCall("farm", fq.sql, fq.params, of)>> ELSE <<>>)
        payload == [kind |-> "advice", farm_details |-> farm_details, recent_harvests |-> h,
                    recent_qc_issues |-> q, upcoming_schedules |-> s]
        details == (IF ~h.ok THEN <<Detail("Harvest query failed: ", h.err)>> ELSE <<>>)
                   \o (IF ~q.ok THEN <<Detail("QC query failed: ", q.err)>> ELSE <<>>)
                   \o (IF ~s.ok THEN <<Detail("Schedule query failed: ", s.err)>> ELSE <<>>)
                   \o (IF ~f.ok /\ Truthy(farm_id) THEN <<Detail("Farm query failed: ", f.err)>> ELSE <<>>)
        anything == ResultTruthy(h) \/ ResultTruthy(q) \/ ResultTruthy(s) \/ Len(farm_details) > 0
    IN  IF data.kind # "object" THEN Outcome(Crash("AttributeError"), <<>>, 0)
        ELSE IF h.ok /\ q.ok /\ s.ok /\ f.ok
        THEN Outcome(Resp(200, Body("success", NoMsg, <<>>, payload)), made, 0)
        ELSE IF anything
        THEN Outcome(Resp(200, Body("warning", Msg("Data retrieval issues encountered.", <<>>),
                                    details, payload)), made, 0)
        ELSE Outcome(Resp(500, Body("error", Msg("Failed to retrieve data for advice.", <<>>),
                                    details, payload)), made, 0)

\* A variant of handle_report_farm_qc_issue that converts affected_quantity_kg only after the
\* row was sent to the warehouse.
handle_report_farm_qc_issue_checking_late(data, u, ins) ==
    LET required == <<"farm_id", "issue_type">>
        chk == RequiredCheck(data, required)
        idate == PyDateIso(GetOr(data, "issue_date", JStr(Today)))
        aq == Get(data, "affected_quantity_kg")
        row == [issue_id |-> u + 1,
                farm_id |-> data.f["farm_id"],
                product_id |-> Get(data, "product_id"),
                issue_date |-> idate.v,
                issue_type |-> data.f["issue_type"],
                affected_quantity_kg |-> aq,
                severity |-> GetOr(data, "severity", JStr("Medium"))]
        r == insert_rows("farm_qc_issues", ins)
        made == <<InsertCall("farm_qc_issues", <<row>>, ins)>>
    IN  IF chk = "missing" THEN Outcome(Resp(400, MissingBody(data, required)), <<>>, 0)
        ELSE IF chk = "raise" THEN Outcome(Crash("TypeError"), <<>>, 0)
        ELSE IF data.kind # "object" THEN Outcome(InternalError("An internal error occurred."), <<>>, 0)
        ELSE IF ~idate.ok
        THEN Outcome(Invalid("Invalid issue_date format. Expected YYYY-MM-DD."), <<>>, 0)
        ELSE IF aq # Null /\ ~PyInt(aq).ok
        THEN Outcome(Invalid("Invalid format for affected_quantity_kg. Expected integer."), made, 1)
        ELSE IF r.ok
        THEN Outcome(Resp(200, Body("success", Msg("Farm quality issue reported successfully.", <<>>), <<>>,
                                    [kind |-> "id", id |-> row.issue_id])), made, 1)
        ELSE Outcome(Resp(500, Body("error", Msg("Failed to report quality issue.", <<>>),
                                    <<Detail("", r.err)>>, NoPayload)), made, 1)

handle_report_farm_qc_issue(data, u, ins) ==
    LET required == <<"farm_id", "issue_type">>
        chk == RequiredCheck(data, required)
        idate == PyDateIso(GetOr(data, "issue_date", JStr(Today)))
        aq == Get(data, "affected_quantity_kg")
        row == [issue_id |-> u + 1,
                farm_id |-> data.f["farm_id"],
                product_id |-> Get(data, "product_id"),
                issue_date |-> idate.v,
                issue_type |-> data.f["issue_type"],
                affected_quantity_kg |-> IF aq = Null THEN Null ELSE PyInt(aq).v,
                severity |-> GetOr(data, "severity", JStr("Medium"))]
        r == insert_rows("farm_qc_issues", ins)
        made == <<InsertCall("farm_qc_issues", <<row>>, ins)>>
    IN  IF chk = "missing" THEN Outcome(Resp(400, MissingBody(data, required)), <<>>, 0)
        ELSE IF chk = "raise" THEN Outcome(Crash("TypeError"), <<>>, 0)
        ELSE IF data.kind # "object" THEN Outcome(InternalError("An internal error occurred."), <<>>, 0)
        ELSE IF ~idate.ok
        THEN Outcome(Invalid("Invalid issue_date format. Expected YYYY-MM-DD."), <<>>, 0)
        ELSE IF aq # Null /\ ~PyInt(aq).ok
        THEN Outcome(Invalid("Invalid format for affected_quantity_kg. Expected integer."), <<>>, 1)
        ELSE IF r.ok
        THEN Outcome(Resp(200, Body("success", Msg("Farm quality issue reported successfully.", <<>>), <<>>,
                                    [kind |-> "id", id |-> row.issue_id])), made, 1)
        ELSE Outcome(Resp(500, Body("error", Msg("Failed to report quality issue.", <<>>),
                                    <<Detail("", r.err)>>, NoPayload)), made, 1)

\* the availability query of /schedule/pickup
availability_query(farm_id, product_id, requested_date_iso) ==
    [sql |-> Sql("harvest_records", "SUM(harvested_quantity_kg) as total_harvested",
                 <<"farm_id = @farm_id", "product_id = @product_id",
                   "harvest_date >= DATE_SUB(@requested_date, INTERVAL 7 DAY)">>, ""),
     params |-> <<Param("farm_id", "STRING", farm_id), Param("product_id", "STRING", product_id),
                  Param("requested_date", "DATE", requested_date_iso)>>]

\* the rows the availability query can give back: SUM is NULL, or a number of kg
AvailabilityOuts ==
    {Rows(<<>>), Rows(<<[total_harvested |-> Null]>>)}
    \cup {Rows(<<[total_harvested |-> JInt(k)]>>) : k \in {4, 5, 12}}
    \cup {Fails(e) : e \in FetchExcs}

\* random.randint(0,2), random.randint(8,16), random.randint(0,59), random.random() < 0.9
PickupRandoms == [days : {0, 2}, hours : {8, 16}, minutes : {0, 59}, cold : BOOLEAN]

\* A variant of handle_schedule_farm_pickup that confirms only when more is available than
\* was requested.
handle_schedule_farm_pickup_strict(data, oa, rnd) ==
    LET required == <<"farm_id", "product_id", "quantity_kg", "requested_date">>
        chk == RequiredCheck(data, required)
        rd == PyDateIso(data.f["requested_date"])
        qty == PyInt(data.f["quantity_kg"])
        aq == availability_query(data.f["farm_id"], data.f["product_id"], rd.v)
        a == fetch_rows(oa)
        available_kg == IF a.ok /\ Len(a.rows) > 0 /\ a.rows[1].total_harvested # Null
                        THEN a.rows[1].total_harvested.n ELSE 0
        made == <<QueryCall("availability", aq.sql, aq.params, oa)>>
    IN  IF chk = "missing" THEN Outcome(Resp(400, MissingBody(data, required)), <<>>, 0)
        ELSE IF chk = "raise" THEN Outcome(Crash("TypeError"), <<>>, 0)
        ELSE IF data.kind # "object"
        THEN Outcome(InternalError("An internal error occurred while processing pickup request."), <<>>, 0)
        ELSE IF ~rd.ok
        THEN Outcome(Invalid("Invalid requested_date format. Expected YYYY-MM-DD."), <<>>, 0)
        ELSE IF ~qty.ok
        THEN Outcome(Invalid("Invalid format for quantity_kg. Expected integer."), <<>>, 0)
        ELSE IF ~a.ok
        THEN Outcome(Resp(500, Body("error", Msg("Failed to check farm availability.", <<>>),
                                    <<Detail("", a.err)>>, NoPayload)), made, 0)
        ELSE IF available_kg > qty.v.n
        THEN Outcome(Resp(200, Body("success", NoMsg, <<>>,
                                    [kind |-> "pickup", request_status |-> "Acknowledged",
                                     requested_date |-> rd.v.s,
                                     pickup_offset |-> [days |-> rnd.days, hours |-> rnd.hours,
                                                        minutes |-> rnd.minutes],
                                     confirmed_quantity_kg |-> qty.v.n,
                                     requires_cold_chain |-> rnd.cold])), made, 0)
        ELSE Outcome(Resp(200, Body("unavailable", Msg("Unable to schedule pickup", <<>>), <<>>,
                                    [kind |-> "shortfall", requested_kg |-> qty.v.n,
                                     available_kg |-> available_kg])), made, 0)

\* A variant of handle_schedule_farm_pickup that books a confirmed pickup against the harvest
\* records, as a row of negative quantity.
handle_schedule_farm_pickup_reserving(data, oa, rnd) ==
    LET required == <<"farm_id", "product_id", "quantity_kg", "requested_date">>
        chk == RequiredCheck(data, required)
        rd == PyDateIso(data.f["requested_date"])
        qty == PyInt(data.f["quantity_kg"])
        aq == availability_query(data.f["farm_id"], data.f["product_id"], rd.v)
        a == fetch_rows(oa)
        available_kg == IF a.ok /\ Len(a.rows) > 0 /\ a.rows[1].total_harvested # Null
                        THEN a.rows[1].total_harvested.n ELSE 0
        made == <<QueryCall("availability", aq.sql, aq.params, oa)>>
    IN  IF chk = "missing" THEN Outcome(Resp(400, MissingBody(data, required)), <<>>, 0)
        ELSE IF chk = "raise" THEN Outcome(Crash("TypeError"), <<>>, 0)
        ELSE IF data.kind # "object"
        THEN Outcome(InternalError("An internal error occurred while processing pickup request."), <<>>, 0)
        ELSE IF ~rd.ok
        THEN Outcome(Invalid("Invalid requested_date format. Expected YYYY-MM-DD."), <<>>, 0)
        ELSE IF ~qty.ok
        THEN Outcome(Invalid("Invalid format for quantity_kg. Expected integer."), <<>>, 0)
        ELSE IF ~a.ok
        THEN Outcome(Resp(500, Body("error", Msg("Failed to check farm availability.", <<>>),
                                    <<Detail("", a.err)>>, NoPayload)), made, 0)
        ELSE IF available_kg >= qty.v.n
        THEN Outcome(Resp(200, Body("success", NoMsg, <<>>,
                                    [kind |-> "pickup", request_status |-> "Acknowledged",
                                     requested_date |-> rd.v.s,
                                     pickup_offset |-> [days |-> rnd.days, hours |-> rnd.hours,
                                                        minutes |-> rnd.minutes],
                                     confirmed_quantity_kg |-> qty.v.n,
                                     requires_cold_chain |-> rnd.cold])),
                     made \o <<InsertCall("harvest_records",
                                          <<[harvest_id |-> 0, farm_id |-> data.f["farm_id"],
                                             product_id |-> data.f["product_id"], harvest_date |-> rd.v,
                                             harvested_quantity_kg |-> JInt(0 - qty.v.n)]>>, "")>>, 0)
        ELSE Outcome(Resp(200, Body("unavailable", Msg("Unable to schedule pickup", <<>>), <<>>,
                                    [kind |-> "shortfall", requested_kg |-> qty.v.n,
                                     available_kg |-> available_kg])), made, 0)

handle_schedule_farm_pickup(data, oa, rnd) ==
    LET required == <<"farm_id", "product_id", "quantity_kg", "requested_date">>
        chk == RequiredCheck(data, required)
        rd == PyDateIso(data.f["requested_date"])
        qty == PyInt(data.f["quantity_kg"])
        aq == availability_query(data.f["farm_id"], data.f["product_id"], rd.v)
        a == fetch_rows(oa)
        available_kg == IF a.ok /\ Len(a.rows) > 0 /\ a.rows[1].total_harvested # Null
                        THEN a.rows[1].total_harvested.n ELSE 0
        made == <<QueryCall("availability", aq.sql, aq.params, oa)>>
    IN  IF chk = "missing" THEN Outcome(Resp(400, MissingBody(data, required)), <<>>, 0)
        ELSE IF chk = "raise" THEN Outcome(Crash("TypeError"), <<>>, 0)
        ELSE IF data.kind # "object"
        THEN Outcome(InternalError("An internal error occurred while processing pickup request."), <<>>, 0)
        ELSE IF ~rd.ok
        THEN Outcome(Invalid("Invalid requested_date format. Expected YYYY-MM-DD."), <<>>, 0)
        ELSE IF ~qty.ok
        THEN Outcome(Invalid("Invalid format for quantity_kg. Expected integer."), <<>>, 0)
        ELSE IF ~a.ok
        THEN Outcome(Resp(500, Body("error", Msg("Failed to check farm availability.", <<>>),
                                    <<Detail("", a.err)>>, NoPayload)), made, 0)
        ELSE IF available_kg >= qty.v.n
        THEN Outcome(Resp(200, Body("success", NoMsg, <<>>,
                                    [kind |-> "pickup", request_status |-> "Acknowledged",
                                     requested_date |-> rd.v.s,
                                     pickup_offset |-> [days |-> rnd.days, hours |-> rnd.hours,
                                                        minutes |-> rnd.minutes],
                                     confirmed_quantity_kg |-> qty.v.n,
                                     requires_cold_chain |-> rnd.cold])), made, 0)
        ELSE Outcome(Resp(200, Body("unavailable", Msg("Unable to schedule pickup", <<>>), <<>>,
                                    [kind |-> "shortfall", requested_kg |-> qty.v.n,
                                     available_kg |-> available_kg])), made, 0)

(***************************************************************************)
(* Requests.  method and path as Flask gives them, contentType the         *)
(* Content-Type header ("" when the header is missing), json the value of  *)
(* request.get_json(silent=True).                                          *)
(***************************************************************************)
Request(service, method, path, contentType, json) ==
    [service |-> service, method |-> method, path |-> path, contentType |-> contentType, json |-> json]

Methods == {"GET", "POST", "PUT"}
ContentTypes == {"application/json", "Application/JSON", "application/json; charset=utf-8", "text/plain", ""}

\* A variant of Lower that leaves the case as it is.
SameCase(x) == x

\* str.lower() on the Content-Type values above
Lower(x) == IF x = "Application/JSON" THEN "application/json" ELSE x

\* bodies that are no JSON object: [] or "", a list or text holding `names`, one holding
\* something else, a number, and the falsy scalars 0 and false
OddBodies(names) == {ArrBody({}), ArrBody(names), ArrBody({"x"}), NumBody(5), NumBody(0)}

\* the response to a POST whose body did not parse (request_data is None)
UnparsedBody(req) ==
    IF Lower(req.contentType) # "application/json"
    THEN Resp(415, Body("error", Msg("Unsupported Media Type. Expected 'application/json'.", <<>>), <<>>, NoPayload))
    ELSE Resp(400, Body("error", Msg("Invalid JSON body received.", <<>>), <<>>, NoPayload))

NotFound404(req) ==
    Resp(404, Body("error", Msg("Endpoint not found.", <<req.path>>), <<>>, NoPayload))
NotAllowed405(req) ==
    Resp(405, Body("error", Msg("Method not allowed for path.", <<req.method, req.path>>), <<>>, NoPayload))

\* bigquery_client.query("SELECT 1").result(timeout=5) of the health checks
ProbeOuts == {""} \cup FetchExcs
ProbeCall(out) == [op |-> "query", slot |-> "probe", sql |-> Sql("", "1", <<>>, ""), params |-> <<>>,
                   rows |-> <<>>, exc |-> out]
\* A variant of HealthCheck that reports success whatever the probe query did.
HealthCheckAlwaysOk(name, out) ==
    Outcome(Resp(200, Body("", Msg(name \o " is running and connected to BigQuery!", <<>>), <<>>, NoPayload)),
            <<ProbeCall(out)>>, 0)

HealthCheck(name, out) ==
    IF out = ""
    THEN Outcome(Resp(200, Body("", Msg(name \o " is running and connected to BigQuery!", <<>>), <<>>, NoPayload)),
                 <<ProbeCall(out)>>, 0)
    ELSE Outcome(Resp(500, Body("", Msg(name \o " health check failed: ", <<StrE(out)>>), <<>>, NoPayload)),
                 <<ProbeCall(out)>>, 0)

AgriPaths == {"/harvest", "/advice/harvest", "/issue/farm", "/schedule/pickup"}

\* what the environment decides during one agrioptimize request
AgriEnv0 == [probe |-> "", ins |-> "", oh |-> Rows(<<>>), oq |-> Rows(<<>>), os |-> Rows(<<>>),
             of |-> Rows(<<>>), oa |-> Rows(<<>>),
             rnd |-> [days |-> 0, hours |-> 8, minutes |-> 0, cold |-> TRUE]]

agrioptimize_backend_function(req, u, en) ==
    IF req.method = "GET" /\ req.path = "/" THEN HealthCheck("AgriOptimize AI Backend", en.probe)
    ELSE IF req.method = "POST"
    THEN IF req.json = NoneBody THEN Outcome(UnparsedBody(req), <<>>, 0)
         ELSE IF req.path = "/harvest" THEN handle_log_harvest(req.json, u, en.ins)
         ELSE IF req.path = "/advice/harvest"
         THEN handle_get_harvest_advice(req.json, en.oh, en.oq, en.os, en.of)
         ELSE IF req.path = "/issue/farm" THEN handle_report_farm_qc_issue(req.json, u, en.ins)
         ELSE IF req.path = "/schedule/pickup" THEN handle_schedule_farm_pickup(req.json, en.oa, en.rnd)
         ELSE Outcome(NotFound404(req), <<>>, 0)
    ELSE Outcome(NotAllowed405(req), <<>>, 0)

(***************************************************************************)
(* The bodies each route is sent.                                          *)
(***************************************************************************)
Ids == {Absent, JStr("F1")}
Quantities == {Absent, Null, JInt(5), JFloat(127), JStr("12"), JStr("abc")}
Dates == {Absent, JStr("2025-01-15"), JStr("2025-1-5"), JStr("15/01/2025"), JInt(20250115)}

HarvestBodies ==
    {ObjBody(f) : f \in [farm_id : Ids, product_id : Ids, harvested_quantity_kg : Quantities,
                         harvest_date : Dates, estimated_yield_kg : {Absent, JStr("abc")},
                         quality_score : {Absent, JFloat(85), JStr("abc")},
                         planting_date : {Absent, JStr("15/01/2025")}]}
    \cup OddBodies({"farm_id", "product_id", "harvested_quantity_kg", "harvest_date"})

AdviceBodies ==
    {ObjBody(f) : f \in [farm_id : {Absent, JStr(""), JStr("F1")}, product_id : Ids,
                         start_date : {Absent, JStr("2025-01-15")}, end_date : {Absent, JStr("2025-01-15")}]}
    \cup OddBodies({"farm_id"})

QcIssueBodies ==
    {ObjBody(f) : f \in [farm_id : Ids, issue_type : {Absent, JStr("Pest")}, product_id : Ids,
                         issue_date : {Absent, JStr("2025-1-5"), JStr("15/01/2025"), Null},
                         affected_quantity_kg : {Absent, JInt(5), JStr("abc")},
                         severity : {Absent, JStr("High")}]}
    \cup OddBodies({"farm_id", "issue_type"})

PickupBodies ==
    {ObjBody(f) : f \in [farm_id : Ids, product_id : Ids, quantity_kg : Quantities, requested_date : Dates]}
    \cup OddBodies({"farm_id", "product_id", "quantity_kg", "requested_date"})

(***************************************************************************)
(* logifresh/main.py                                                       *)
(***************************************************************************)
shipment_query(shipment_id) ==
    [sql |-> Sql("shipments", "shipment_id, order_id, ..., status, total_quantity_kg, requires_cold_chain",
                 <<"shipment_id = @shipment_id">>, "LIMIT 1"),
     params |-> <<Param("shipment_id", "STRING", shipment_id)>>]

cold_chain_query(shipment_id) ==
    [sql |-> Sql("cold_chain_readings", "timestamp, temperature_celsius, location, sensor_id",
                 <<"shipment_id = @shipment_id_cc">>, "ORDER BY timestamp DESC LIMIT 10"),
     params |-> <<Param("shipment_id_cc", "STRING", shipment_id)>>]

\* the shipment row the query can give back: none, or one that does or does not need the cold chain
ShipmentOuts ==
    {Rows(<<>>)} \cup {Rows(<<[shipment_id |-> "S1", requires_cold_chain |-> c]>>) : c \in {JBool(TRUE), JBool(FALSE), Null}}
    \cup {Fails(e) : e \in FetchExcs}

handle_track_shipment_location(data, os, oc) ==
    LET required == <<"shipment_id">>
        chk == RequiredCheck(data, required)
        shipment_id == data.f["shipment_id"]
        sq == shipment_query(shipment_id)
        s == fetch_rows(os)
        shipment_info == s.rows[1]
        wants == Truthy(shipment_info.requires_cold_chain)
        cq == cold_chain_query(shipment_id)
        c == fetch_rows(oc)
        made == <<QueryCall("shipment", sq.sql, sq.params, os)>>
                \o (IF s.ok /\ Len(s.rows) > 0 /\ wants
                    THEN <<QueryCall("cold_chain", cq.sql, cq.params, oc)>> ELSE <<>>)
        readings == IF wants /\ c.ok THEN c.rows ELSE <<>>
        payload == [kind |-> "shipment", shipment_details |-> shipment_info,
                    recent_cold_chain_readings |-> readings]
    IN  IF chk = "missing" THEN Outcome(Resp(400, MissingBody(data, required)), <<>>, 0)
        ELSE IF chk = "raise" THEN Outcome(Crash("TypeError"), <<>>, 0)
        ELSE IF data.kind # "object" THEN Outcome(InternalError("An internal error occurred."), <<>>, 0)
        ELSE IF ~s.ok
        THEN Outcome(Resp(500, Body("error", Msg("Failed to retrieve shipment details.", <<>>),
                                    <<Detail("", s.err)>>, NoPayload)), made, 0)
        ELSE IF Len(s.rows) = 0
        THEN Outcome(Resp(200, Body("not_found", Msg("Shipment ID not found.", <<>>), <<>>, NoPayload)), made, 0)
        ELSE IF ~wants \/ c.ok
        THEN Outcome(Resp(200, Body("success", NoMsg, <<>>, payload)), made, 0)
        \* the failed readings were replaced by [] before the message is built
        ELSE Outcome(Resp(200, Body("warning", Msg("Data retrieval issues encountered.", <<>>),
                                    <<Detail("Cold chain query failed: ", "[]")>>, payload)), made, 0)

\* A variant of handle_report_cold_chain_issue that warns from 8 degrees on.
handle_report_cold_chain_issue_warning_at_8(data, u, ins) ==
    LET required == <<"shipment_id", "temperature_celsius", "timestamp">>
        chk == RequiredCheck(data, required)
        temp == PyFloat(data.f["temperature_celsius"])
        ts == PyTimestampIso(data.f["timestamp"])
        row == [reading_id |-> u + 1,
                shipment_id |-> data.f["shipment_id"],
                vehicle_id |-> Get(data, "vehicle_id"),
                timestamp |-> ts.v,
                temperature_celsius |-> temp.v,
                sensor_id |-> GetOr(data, "sensor_id", JStr("Unknown"))]
        r == insert_rows("cold_chain_readings", ins)
        made == <<InsertCall("cold_chain_readings", <<row>>, ins)>>
        message == IF temp.v.n > 150 THEN "Critical: High temperature excursion reported."
                   ELSE IF temp.v.n >= 80
                   THEN "Cold chain reading reported successfully. Warning: Temperature is elevated."
                   ELSE "Cold chain reading reported successfully."
    IN  IF chk = "missing" THEN Outcome(Resp(400, MissingBody(data, required)), <<>>, 0)
        ELSE IF chk = "raise" THEN Outcome(Crash("TypeError"), <<>>, 0)
        ELSE IF data.kind # "object" THEN Outcome(InternalError("An internal error occurred."), <<>>, 0)
        ELSE IF ~temp.ok
        THEN Outcome(Invalid("Invalid format for temperature_celsius. Expected number."), <<>>, 0)
        ELSE IF ~ts.ok /\ CaughtNarrow(ts)
        THEN Outcome(Invalid("Invalid timestamp format. Expected ISO 8601 format."), <<>>, 0)
        ELSE IF ~ts.ok THEN Outcome(InternalError("An internal error occurred."), <<>>, 0)
        ELSE IF r.ok
        THEN Outcome(Resp(200, Body("success", Msg(message, <<>>), <<>>,
                                    [kind |-> "id", id |-> row.reading_id])), made, 1)
        ELSE Outcome(Resp(500, Body("error", Msg("Failed to report cold chain reading.", <<>>),
                                    <<Detail("", r.err)>>, NoPayload)), made, 1)

handle_report_cold_chain_issue(data, u, ins) ==
    LET required == <<"shipment_id", "temperature_celsius", "timestamp">>
        chk == RequiredCheck(data, required)
        temp == PyFloat(data.f["temperature_celsius"])
        ts == PyTimestampIso(data.f["timestamp"])
        row == [reading_id |-> u + 1,
                shipment_id |-> data.f["shipment_id"],
                vehicle_id |-> Get(data, "vehicle_id"),
                timestamp |-> ts.v,
                temperature_celsius |-> temp.v,
                sensor_id |-> GetOr(data, "sensor_id", JStr("Unknown"))]
        r == insert_rows("cold_chain_readings", ins)
        made == <<InsertCall("cold_chain_readings", <<row>>, ins)>>
        message == IF temp.v.n > 150 THEN "Critical: High temperature excursion reported."
                   ELSE IF temp.v.n > 80
                   THEN "Cold chain reading reported successfully. Warning: Temperature is elevated."
                   ELSE "Cold chain reading reported successfully."
    IN  IF chk = "missing" THEN Outcome(Resp(400, MissingBody(data, required)), <<>>, 0)
        ELSE IF chk = "raise" THEN Outcome(Crash("TypeError"), <<>>, 0)
        ELSE IF data.kind # "object" THEN Outcome(InternalError("An internal error occurred."), <<>>, 0)
        ELSE IF ~temp.ok
        THEN Outcome(Invalid("Invalid format for temperature_celsius. Expected number."), <<>>, 0)
        ELSE IF ~ts.ok /\ CaughtNarrow(ts)
        THEN Outcome(Invalid("Invalid timestamp format. Expected ISO 8601 format."), <<>>, 0)
        ELSE IF ~ts.ok THEN Outcome(InternalError("An internal error occurred."), <<>>, 0)
        ELSE IF r.ok
        THEN Outcome(Resp(200, Body("success", Msg(message, <<>>), <<>>,
                                    [kind |-> "id", id |-> row.reading_id])), made, 1)
        ELSE Outcome(Resp(500, Body("error", Msg("Failed to report cold chain reading.", <<>>),
                                    <<Detail("", r.err)>>, NoPayload)), made, 1)

\* A variant of stock_query that writes the location into the SQL text.
stock_query_interpolated(location_id, status_filter, product_id, nearing_expiry) ==
    [sql |-> Sql("inventory_stock", "stock_id, product_id, current_quantity_kg, ..., storage_conditions, status",
                 <<"location_id = '" \o location_id.s \o "'", "status = @status_filter">>
                 \o (IF Truthy(product_id) THEN <<"product_id = @product_id">> ELSE <<>>)
                 \o (IF Truthy(nearing_expiry)
                     THEN <<"expiry_date BETWEEN CURRENT_DATE() AND DATE_ADD(CURRENT_DATE(), INTERVAL 7 DAY)">>
                     ELSE <<>>),
                 "ORDER BY expiry_date ASC, best_before_date ASC LIMIT 20"),
     params |-> <<Param("status_filter", "STRING", status_filter)>>
                \o (IF Truthy(product_id) THEN <<Param("product_id", "STRING", product_id)>> ELSE <<>>)]

stock_query(location_id, status_filter, product_id, nearing_expiry) ==
    [sql |-> Sql("inventory_stock", "stock_id, product_id, current_quantity_kg, ..., storage_conditions, status",
                 <<"location_id = @location_id", "status = @status_filter">>
                 \o (IF Truthy(product_id) THEN <<"product_id = @product_id">> ELSE <<>>)
                 \o (IF Truthy(nearing_expiry)
                     THEN <<"expiry_date BETWEEN CURRENT_DATE() AND DATE_ADD(CURRENT_DATE(), INTERVAL 7 DAY)">>
                     ELSE <<>>),
                 "ORDER BY expiry_date ASC, best_before_date ASC LIMIT 20"),
     params |-> <<Param("location_id", "STRING", location_id), Param("status_filter", "STRING", status_filter)>>
                \o (IF Truthy(product_id) THEN <<Param("product_id", "STRING", product_id)>> ELSE <<>>)]

\* A variant of handle_check_warehouse_stock that answers a failed stock query with an
\* empty stock list.
handle_check_warehouse_stock_lenient(data, o) ==
    LET q == stock_query(data.f["location_id"], GetOr(data, "status", JStr("Available")),
                         Get(data, "product_id"), Get(data, "nearing_expiry"))
    IN  IF RequiredCheck(data, <<"location_id">>) = "missing"
        THEN Outcome(Resp(400, MissingBody(data, <<"location_id">>)), <<>>, 0)
        ELSE IF RequiredCheck(data, <<"location_id">>) = "raise" THEN Outcome(Crash("TypeError"), <<>>, 0)
        ELSE IF data.kind # "object" THEN Outcome(InternalError("An internal error occurred."), <<>>, 0)
        ELSE Outcome(Resp(200, Body("success", NoMsg, <<>>,
                                    [kind |-> "stock", location_id |-> data.f["location_id"],
                                     stock_items |-> fetch_rows(o).rows])),
                     <<QueryCall("stock", q.sql, q.params, o)>>, 0)

handle_check_warehouse_stock(data, o) ==
    LET required == <<"location_id">>
        chk == RequiredCheck(data, required)
        q == stock_query(data.f["location_id"], GetOr(data, "status", JStr("Available")),
                         Get(data, "product_id"), Get(data, "nearing_expiry"))
        r == fetch_rows(o)
        made == <<QueryCall("stock", q.sql, q.params, o)>>
    IN  IF chk = "missing" THEN Outcome(Resp(400, MissingBody(data, required)), <<>>, 0)
        ELSE IF chk = "raise" THEN Outcome(Crash("TypeError"), <<>>, 0)
        ELSE IF data.kind # "object" THEN Outcome(InternalError("An internal error occurred."), <<>>, 0)
        ELSE IF r.ok
        THEN Outcome(Resp(200, Body("success", NoMsg, <<>>,
                                    [kind |-> "stock", location_id |-> data.f["location_id"],
                                     stock_items |-> r.rows])), made, 0)
        ELSE Outcome(Resp(500, Body("error", Msg("Failed to retrieve warehouse stock.", <<>>),
                                    <<Detail("", r.err)>>, NoPayload)), made, 0)

vehicle_query(vehicle_id) ==
    [sql |-> Sql("vehicles", "vehicle_id, vehicle_type, capacity_kg, has_temperature_monitoring, carrier_name",
                 <<"vehicle_id = @vehicle_id">>, "LIMIT 1"),
     params |-> <<Param("vehicle_id", "STRING", vehicle_id)>>]

customer_query(customer_ids) ==
    [sql |-> Sql("customers", "customer_id, shipping_address",
                 <<"customer_id IN UNNEST(@customer_ids)">>, ""),
     params |-> <<Param("customer_ids", "ARRAY<STRING>", customer_ids)>>]

\* the most customer rows the customer lookup gives back
MaxStops == 2

CustomerId(i) == JStr("C" \o ToString(i))
Customer(i) == [customer_id |-> CustomerId(i), shipping_address |-> JStr(ToString(i) \o " High St")]

\* the elements of a set of numbers, ascending
Ascending(S) == [i \in 1..Cardinality(S) |-> CHOOSE x \in S : Cardinality({y \in S : y < x}) = i - 1]

\* the customer rows of any of the n ids asked for
CustomerOuts(n) ==
    {Rows([i \in 1..Cardinality(S) |-> Customer(Ascending(S)[i])]) : S \in SUBSET (1..n)}
    \cup {Fails(e) : e \in FetchExcs}
VehicleOuts == {Rows(<<>>), Rows(<<[vehicle_id |-> "V1"]>>)} \cup {Fails(e) : e \in FetchExcs}

\* random.randint(30, 90), the order random.shuffle leaves, random.randint(15, 45) per stop
Shuffles(n) == {p \in [1..n -> 1..n] : \A i, j \in 1..n : p[i] = p[j] => i = j}
RouteRandoms ==
    UNION {[per_stop : {30, 90}, order : Shuffles(n), service : [1..n -> {15, 45}]] : n \in 0..MaxStops}

\* minutes from datetime.now() to the arrival at stop i: each stop adds (i + 1) * per_stop
\* to the arrival at the stop before it
RECURSIVE ArrivalMinutes(_, _)
ArrivalMinutes(i, per_stop) == IF i = 0 THEN 0 ELSE ArrivalMinutes(i - 1, per_stop) + i * per_stop

\* A variant of handle_optimize_delivery_route that draws the customer of every stop with
\* random.choice, so that one customer can be drawn again.
handle_optimize_delivery_route_choosing(data, ov, oc, rnd) ==
    LET required == <<"destination_locations", "vehicle_id">>
        chk == RequiredCheck(data, required)
        destinations == data.f["destination_locations"]
        vq == vehicle_query(data.f["vehicle_id"])
        v == fetch_rows(ov)
        cq == customer_query(destinations)
        c == fetch_rows(oc)
        customer_locations == IF c.ok THEN c.rows ELSE <<>>
        n == Len(customer_locations)
        shuffled == [i \in 1..n |-> customer_locations[rnd.order[1]]]
        simulated_route == [i \in 1..n |->
                               [stop_number |-> i,
                                destination_id |-> shuffled[i].customer_id,
                                destination_address |-> shuffled[i].shipping_address,
                                estimated_arrival_minutes |-> ArrivalMinutes(i, rnd.per_stop),
                                estimated_service_duration_minutes |-> rnd.service[i]]]
        made1 == <<QueryCall("vehicle", vq.sql, vq.params, ov)>>
        made2 == made1 \o <<QueryCall("customers", cq.sql, cq.params, oc)>>
    IN  IF chk = "missing" THEN Outcome(Resp(400, MissingBody(data, required)), <<>>, 0)
        ELSE IF chk = "raise" THEN Outcome(Crash("TypeError"), <<>>, 0)
        ELSE IF data.kind # "object" THEN Outcome(Crash("TypeError"), <<>>, 0)
        ELSE IF destinations.t # "list" \/ ~Truthy(destinations)
        THEN Outcome(Invalid("Field 'destination_locations' must be a non-empty list."), <<>>, 0)
        ELSE IF ~v.ok
        THEN Outcome(Resp(500, Body("error", Msg("Failed to retrieve vehicle details.", <<>>),
                                    <<Detail("", v.err)>>, NoPayload)), made1, 0)
        ELSE IF Len(v.rows) = 0
        THEN Outcome(Resp(200, Body("not_found", Msg("Vehicle ID not found.", <<>>), <<>>, NoPayload)), made1, 0)
        ELSE IF n = 0
        THEN Outcome(Resp(200, Body("unavailable",
                                    Msg("Could not find valid destinations based on provided IDs.", <<>>),
                                    <<>>, NoPayload)), made2, 0)
        ELSE Outcome(Resp(200, Body("success", Msg("Simulated route generated.", <<>>), <<>>,
                                    [kind |-> "route", vehicle_id |-> data.f["vehicle_id"],
                                     num_stops |-> Len(simulated_route),
                                     estimated_total_duration_minutes |-> n * rnd.per_stop,
                                     route_stops |-> simulated_route])), made2, 0)

handle_optimize_delivery_route(data, ov, oc, rnd) ==
    LET required == <<"destination_locations", "vehicle_id">>
        chk == RequiredCheck(data, required)
        destinations == data.f["destination_locations"]
        vq == vehicle_query(data.f["vehicle_id"])
        v == fetch_rows(ov)
        cq == customer_query(destinations)
        c == fetch_rows(oc)
        customer_locations == IF c.ok THEN c.rows ELSE <<>>
        n == Len(customer_locations)
        shuffled == [i \in 1..n |-> customer_locations[rnd.order[i]]]
        simulated_route == [i \in 1..n |->
                               [stop_number |-> i,
                                destination_id |-> shuffled[i].customer_id,
                                destination_address |-> shuffled[i].shipping_address,
                                estimated_arrival_minutes |-> ArrivalMinutes(i, rnd.per_stop),
                                estimated_service_duration_minutes |-> rnd.service[i]]]
        made1 == <<QueryCall("vehicle", vq.sql, vq.params, ov)>>
        made2 == made1 \o <<QueryCall("customers", cq.sql, cq.params, oc)>>
    IN  IF chk = "missing" THEN Outcome(Resp(400, MissingBody(data, required)), <<>>, 0)
        ELSE IF chk = "raise" THEN Outcome(Crash("TypeError"), <<>>, 0)
        ELSE IF data.kind # "object" THEN Outcome(Crash("TypeError"), <<>>, 0)
        ELSE IF destinations.t # "list" \/ ~Truthy(destinations)
        THEN Outcome(Invalid("Field 'destination_locations' must be a non-empty list."), <<>>, 0)
        ELSE IF ~v.ok
        THEN Outcome(Resp(500, Body("error", Msg("Failed to retrieve vehicle details.", <<>>),
                                    <<Detail("", v.err)>>, NoPayload)), made1, 0)
        ELSE IF Len(v.rows) = 0
        THEN Outcome(Resp(200, Body("not_found", Msg("Vehicle ID not found.", <<>>), <<>>, NoPayload)), made1, 0)
        ELSE IF n = 0
        THEN Outcome(Resp(200, Body("unavailable",
                                    Msg("Could not find valid destinations based on provided IDs.", <<>>),
                                    <<>>, NoPayload)), made2, 0)
        ELSE Outcome(Resp(200, Body("success", Msg("Simulated route generated.", <<>>), <<>>,
                                    [kind |-> "route", vehicle_id |-> data.f["vehicle_id"],
                                     num_stops |-> Len(simulated_route),
                                     estimated_total_duration_minutes |-> n * rnd.per_stop,
                                     route_stops |-> simulated_route])), made2, 0)

\* A variant of handle_schedule_farm_pickup_logistics that acknowledges without the
\* required-field check.
handle_pickup_logistics_unchecked(data) ==
    Outcome(Resp(200, Body("acknowledged", Msg("Pickup request received by Logistics.", <<>>),
                           <<>>, NoPayload)), <<>>, 0)

handle_schedule_farm_pickup_logistics(data) ==
    LET required == <<"farm_id", "product_id", "quantity_kg", "requested_date">>
        chk == RequiredCheck(data, required)
    IN  IF chk = "missing"
        THEN Outcome(Resp(200, Body("error", Msg("Logistics Pickup Request Error: Missing required fields: ",
                                                 MissingFields(data, required)), <<>>, NoPayload)), <<>>, 0)
        ELSE IF chk = "raise" THEN Outcome(Crash("TypeError"), <<>>, 0)
        ELSE IF data.kind # "object"
        THEN Outcome(Resp(200, Body("error", Msg("Error processing logistics pickup request: ",
                                                 <<"AttributeError">>), <<>>, NoPayload)), <<>>, 0)
        ELSE Outcome(Resp(200, Body("acknowledged", Msg("Pickup request received by Logistics.", <<>>),
                                    <<>>, NoPayload)), <<>>, 0)

LogiPaths == {"/shipment/status", "/issue/coldchain", "/inventory/stock", "/route/optimize",
              "/logistics/schedule-pickup-request"}

LogiEnv0 == [probe |-> "", ins |-> "", os |-> Rows(<<>>), oc |-> Rows(<<>>), o |-> Rows(<<>>),
             ov |-> Rows(<<>>), rnd |-> [per_stop |-> 30, order |-> <<>>, service |-> <<>>]]

\* A variant of logifresh_backend_function whose health check is taken for every GET.
logifresh_health_on_any_get(req, u, en) ==
    IF req.method = "GET" THEN HealthCheck("LogiFresh AI Backend", en.probe)
    ELSE IF req.method = "POST"
    THEN IF req.json = NoneBody THEN Outcome(UnparsedBody(req), <<>>, 0)
         ELSE IF req.path = "/shipment/status" THEN handle_track_shipment_location(req.json, en.os, en.oc)
         ELSE IF req.path = "/issue/coldchain" THEN handle_report_cold_chain_issue(req.json, u, en.ins)
         ELSE IF req.path = "/inventory/stock" THEN handle_check_warehouse_stock(req.json, en.o)
         ELSE IF req.path = "/route/optimize"
         THEN handle_optimize_delivery_route(req.json, en.ov, en.oc, en.rnd)
         ELSE IF req.path = "/logistics/schedule-pickup-request"
         THEN handle_schedule_farm_pickup_logistics(req.json)
         ELSE Outcome(NotFound404(req), <<>>, 0)
    ELSE Outcome(NotAllowed405(req), <<>>, 0)

logifresh_backend_function(req, u, en) ==
    IF req.method = "GET" /\ req.path = "/" THEN HealthCheck("LogiFresh AI Backend", en.probe)
    ELSE IF req.method = "POST"
    THEN IF req.json = NoneBody THEN Outcome(UnparsedBody(req), <<>>, 0)
         ELSE IF req.path = "/shipment/status" THEN handle_track_shipment_location(req.json, en.os, en.oc)
         ELSE IF req.path = "/issue/coldchain" THEN handle_report_cold_chain_issue(req.json, u, en.ins)
         ELSE IF req.path = "/inventory/stock" THEN handle_check_warehouse_stock(req.json, en.o)
         ELSE IF req.path = "/route/optimize"
         THEN handle_optimize_delivery_route(req.json, en.ov, en.oc, en.rnd)
         ELSE IF req.path = "/logistics/schedule-pickup-request"
         THEN handle_schedule_farm_pickup_logistics(req.json)
         ELSE Outcome(NotFound404(req), <<>>, 0)
    ELSE Outcome(NotAllowed405(req), <<>>, 0)

ShipmentBodies ==
    {ObjBody(f) : f \in [shipment_id : {Absent, JStr("S1"), JStr("S2")}]} \cup OddBodies({"shipment_id"})

ColdChainBodies ==
    {ObjBody(f) : f \in [shipment_id : {Absent, JStr("S1")},
                         temperature_celsius : {Absent, Null, JInt(8), JFloat(81), JInt(15), JFloat(151),
                                                JStr("12.5"), JStr("abc")},
                         timestamp : {Absent, Null, JStr("2025-01-15T10:00:00Z"), JStr("yesterday"),
                                      JInt(1736935200)},
                         vehicle_id : {Absent, JStr("V1")}]}
    \cup OddBodies({"shipment_id", "temperature_celsius", "timestamp"})

StockBodies ==
    {ObjBody(f) : f \in [location_id : {Absent, JStr("W1"), JStr("W2")},
                         status : {Absent, JStr("Reserved")},
                         product_id : {Absent, JStr(""), JStr("P1"), JStr("P2")},
                         nearing_expiry : {Absent, JBool(TRUE), JBool(FALSE)}]}
    \cup OddBodies({"location_id"})

DestinationLists == {JList([i \in 1..n |-> CustomerId(i)]) : n \in 0..MaxStops}

RouteBodies ==
    {ObjBody(f) : f \in [destination_locations : {Absent, Null, JStr("C")} \cup DestinationLists,
                         vehicle_id : {Absent, JStr("V1"), JStr("V2")}]}
    \cup OddBodies({"destination_locations", "vehicle_id"})

(***************************************************************************)
(* marketflow/main.py                                                      *)
(***************************************************************************)
\* What the warehouse does with a query that has DATE parameters: a value that is no
\* YYYY-MM-DD date makes the query fail (400 Bad Request, a GoogleAPIError) whatever
\* the tables hold; otherwise the outcome is the environment's.
WithDates(dates, out) ==
    IF \A i \in 1..Len(dates) : dates[i].t = "null" \/ (dates[i].t = "str" /\ dates[i].s \in DOMAIN DateText)
    THEN out ELSE Fails("GoogleAPIError")

\* A variant of forecast_query that leaves the region out of the conditions.
forecast_query_any_region(product_id, start, end, region) ==
    [sql |-> Sql("demand_forecasts",
                 "forecast_id, region, forecast_date, target_date_start, target_date_end, forecasted_demand_kg, confidence_level",
                 <<"product_id = @product_id", "target_date_start = @start_date", "target_date_end = @end_date">>,
                 "ORDER BY forecast_date DESC LIMIT 5"),
     params |-> <<Param("product_id", "STRING", product_id), Param("start_date", "DATE", start),
                  Param("end_date", "DATE", end)>>]

forecast_query(product_id, start, end, region) ==
    [sql |-> Sql("demand_forecasts",
                 "forecast_id, region, forecast_date, target_date_start, target_date_end, forecasted_demand_kg, confidence_level",
                 <<"product_id = @product_id", "target_date_start = @start_date", "target_date_end = @end_date">>
                 \o (IF Truthy(region) THEN <<"region = @region">> ELSE <<>>),
                 "ORDER BY forecast_date DESC LIMIT 5"),
     params |-> <<Param("product_id", "STRING", product_id), Param("start_date", "DATE", start),
                  Param("end_date", "DATE", end)>>
                \o (IF Truthy(region) THEN <<Param("region", "STRING", region)>> ELSE <<>>)]

handle_get_demand_forecast(data, o) ==
    LET required == <<"product_id", "target_date_start", "target_date_end">>
        chk == RequiredCheck(data, required)
        start == data.f["target_date_start"]
        end == data.f["target_date_end"]
        q == forecast_query(data.f["product_id"], start, end, Get(data, "region"))
        out == WithDates(<<start, end>>, o)
        r == fetch_rows(out)
        made == <<QueryCall("forecasts", q.sql, q.params, out)>>
    IN  IF chk = "missing" THEN Outcome(Resp(400, MissingBody(data, required)), <<>>, 0)
        ELSE IF chk = "raise" THEN Outcome(Crash("TypeError"), <<>>, 0)
        ELSE IF data.kind # "object" THEN Outcome(InternalError("An internal error occurred."), <<>>, 0)
        ELSE IF r.ok
        THEN Outcome(Resp(200, Body("success", NoMsg, <<>>, [kind |-> "forecasts", forecasts |-> r.rows])),
                     made, 0)
        ELSE Outcome(Resp(500, Body("error", Msg("Failed to retrieve demand forecasts.", <<>>),
                                    <<Detail("", r.err)>>, NoPayload)), made, 0)

prices_query(product_id, date_str, region) ==
    [sql |-> Sql("market_prices", "price_record_id, region, market_date, average_market_price_per_kg, source",
                 <<"product_id = @product_id", "market_date = @market_date">>
                 \o (IF Truthy(region) THEN <<"region = @region">> ELSE <<>>),
                 "LIMIT 1"),
     params |-> <<Param("product_id", "STRING", product_id), Param("market_date", "DATE", date_str)>>
                \o (IF Truthy(region) THEN <<Param("region", "STRING", region)>> ELSE <<>>)]

handle_get_market_prices(data, o) ==
    LET required == <<"product_id">>
        chk == RequiredCheck(data, required)
        date_str == GetOr(data, "date", JStr(Today))
        region == Get(data, "region")
        q == prices_query(data.f["product_id"], date_str, region)
        out == WithDates(<<date_str>>, o)
        r == fetch_rows(out)
        made == <<QueryCall("prices", q.sql, q.params, out)>>
    IN  IF chk = "missing" THEN Outcome(Resp(400, MissingBody(data, required)), <<>>, 0)
        ELSE IF chk = "raise" THEN Outcome(Crash("TypeError"), <<>>, 0)
        ELSE IF data.kind # "object" THEN Outcome(InternalError("An internal error occurred."), <<>>, 0)
        ELSE IF r.ok /\ Len(r.rows) > 0
        THEN Outcome(Resp(200, Body("success", NoMsg, <<>>, [kind |-> "prices", prices |-> r.rows])), made, 0)
        ELSE IF r.ok
        THEN Outcome(Resp(200, Body("success",
                                    Msg("No market price found", <<data.f["product_id"].s, date_str.s, region.s>>),
                                    <<>>, [kind |-> "prices", prices |-> <<>>])), made, 0)
        ELSE Outcome(Resp(500, Body("error", Msg("Failed to retrieve market prices.", <<>>),
                                    <<Detail("", r.err)>>, NoPayload)), made, 0)

stock_sum_query(product_id, location_id) ==
    [sql |-> Sql("inventory_stock",
                 "SUM(current_quantity_kg) as total_on_hand, COUNT(DISTINCT location_id) as num_locations",
                 <<"product_id = @product_id", "status = 'Available'">>
                 \o (IF Truthy(location_id) THEN <<"location_id = @location_id_stock">> ELSE <<>>), ""),
     params |-> <<Param("product_id", "STRING", product_id)>>
                \o (IF Truthy(location_id) THEN <<Param("location_id_stock", "STRING", location_id)>> ELSE <<>>)]

shipment_sum_query(product_id) ==
    [sql |-> Sql("shipments t1 JOIN order_items t2 ON t1.order_id = t2.order_id",
                 "SUM(t2.ordered_quantity_kg) as total_incoming_shipments",
                 <<"t2.product_id = @product_id_shipment", "t1.status = 'In Transit'",
                   "t1.arrival_timestamp_estimate >= CURRENT_TIMESTAMP()">>, ""),
     params |-> <<Param("product_id_shipment", "STRING", product_id)>>]

schedule_sum_query(product_id) ==
    [sql |-> Sql("planting_schedules", "SUM(expected_yield_estimate_kg) as total_upcoming_harvest",
                 <<"product_id = @product_id_sched", "planned_harvest_date_estimate >= CURRENT_DATE()",
                   "status IN ('Planned', 'Planted', 'Growing', 'Harvesting')">>, ""),
     params |-> <<Param("product_id_sched", "STRING", product_id)>>]

\* an aggregate query gives one row; SUM over no rows is NULL
SumOuts == {Rows(<<[total |-> Null, num |-> JInt(0)]>>), Rows(<<[total |-> JInt(40), num |-> JInt(2)]>>)}
           \cup {Fails(e) : e \in FetchExcs}

\* result[0][column] if success and result and result[0][column] is not None else 0
SumOr0(r, column) ==
    IF r.ok /\ Len(r.rows) > 0 /\ r.rows[1][column].t # "null" THEN r.rows[1][column].n ELSE 0

handle_check_product_availability(data, ostock, oship, osched) ==
    LET required == <<"product_id">>
        chk == RequiredCheck(data, required)
        product_id == data.f["product_id"]
        location_id == Get(data, "location_id")
        q1 == stock_sum_query(product_id, location_id)
        q2 == shipment_sum_query(product_id)
        q3 == schedule_sum_query(product_id)
        r1 == fetch_rows(ostock)
        r2 == fetch_rows(oship)
        r3 == fetch_rows(osched)
        made == <<QueryCall("stock_sum", q1.sql, q1.params, ostock),
                  QueryCall("shipment_sum", q2.sql, q2.params, oship),
                  QueryCall("schedule_sum", q3.sql, q3.params, osched)>>
        error_messages == (IF r1.ok THEN <<>> ELSE <<Detail("Stock query failed: ", r1.err)>>)
                          \o (IF r2.ok THEN <<>> ELSE <<Detail("Shipment query failed: ", r2.err)>>)
                          \o (IF r3.ok THEN <<>> ELSE <<Detail("Schedule query failed: ", r3.err)>>)
    IN  IF chk = "missing" THEN Outcome(Resp(400, MissingBody(data, required)), <<>>, 0)
        ELSE IF chk = "raise" THEN Outcome(Crash("TypeError"), <<>>, 0)
        ELSE IF data.kind # "object" THEN Outcome(InternalError("An internal error occurred."), <<>>, 0)
        ELSE IF r1.ok /\ r2.ok /\ r3.ok
        THEN Outcome(Resp(200, Body("success", NoMsg, <<>>,
                                    [kind |-> "availability", product_id |-> product_id,
                                     location_id |-> location_id,
                                     total_on_hand_kg |-> SumOr0(r1, "total"),
                                     num_stock_locations |-> SumOr0(r1, "num"),
                                     total_incoming_shipments_kg |-> SumOr0(r2, "total"),
                                     total_upcoming_harvest_kg |-> SumOr0(r3, "total")])), made, 0)
        ELSE Outcome(Resp(500, Body("error", Msg("Failed to retrieve availability data.", <<>>),
                                    error_messages, NoPayload)), made, 0)

\* the most items an order of the model has
MaxItems == 2

\* what the loop body does with one item: "ok", or the way it ends the request
ItemCheck(item) ==
    IF item.t \in {"null", "int", "float", "bool"} THEN "raise"
    ELSE IF item.t # "obj" THEN "missing"
    ELSE IF item.product_id = Absent \/ item.quantity_kg = Absent THEN "missing"
    ELSE IF ~PyInt(item.quantity_kg).ok THEN "format"
    ELSE IF PyInt(item.quantity_kg).v.n <= 0 THEN "positive"
    ELSE "ok"

\* the items before the first one that ends the loop (all of them when none does)
RECURSIVE Accepted(_)
Accepted(items) ==
    IF items = <<>> \/ ItemCheck(Head(items)) # "ok" THEN <<>>
    ELSE <<Head(items)>> \o Accepted(Tail(items))

\* A variant of Sum that keeps only the last term (total_amount = line_item_total in the loop).
SumKeepingLast(xs) == IF xs = <<>> THEN 0 ELSE xs[Len(xs)]

RECURSIVE Sum(_)
Sum(xs) == IF xs = <<>> THEN 0 ELSE Head(xs) + Sum(Tail(xs))

order_customer_query(customer_id) ==
    [sql |-> Sql("customers", "shipping_address", <<"customer_id = @customer_id">>, "LIMIT 1"),
     params |-> <<Param("customer_id", "STRING", customer_id)>>]

AddressOuts == {Rows(<<>>), Rows(<<[shipping_address |-> JStr("1 Main St")]>>)} \cup {Fails(e) : e \in FetchExcs}

\* round(random.uniform(1.0, 5.0), 2) in cents, one per item
PriceLists == UNION {[1..n -> {100, 499}] : n \in 0..MaxItems}

\* A variant of handle_place_purchase_order that does not send the items once the orders
\* insert failed.
handle_place_purchase_order_stopping(data, u, oc, ins_order, ins_items, prices) ==
    LET required == <<"customer_id", "items">>
        chk == RequiredCheck(data, required)
        items == data.f["items"].l
        good == Accepted(items)
        n == Len(good)
        bad == items[n + 1]
        order_id == u + 1
        quantity(i) == PyInt(good[i].quantity_kg).v.n
        order_items_to_insert ==
            [i \in 1..n |-> [order_item_id |-> u + 1 + i,
                             order_id |-> order_id,
                             product_id |-> good[i].product_id,
                             ordered_quantity_kg |-> quantity(i),
                             price_per_kg_at_order |-> prices[i],
                             line_item_total |-> quantity(i) * prices[i]]]
        total_amount == Sum([i \in 1..n |-> order_items_to_insert[i].line_item_total])
        cq == order_customer_query(data.f["customer_id"])
        c == fetch_rows(oc)
        delivery_address == IF c.ok /\ Len(c.rows) > 0 THEN c.rows[1].shipping_address
                            ELSE JStr("Unknown Address")
        order_to_insert == [order_id |-> order_id,
                            customer_id |-> data.f["customer_id"],
                            order_date |-> JStr(Today),
                            delivery_date_requested |-> GetOr(data, "delivery_date_requested", JStr(Today)),
                            delivery_address |-> GetOr(data, "delivery_address", delivery_address),
                            status |-> GetOr(data, "status", JStr("Pending")),
                            total_amount |-> total_amount]
        r1 == insert_rows("orders", ins_order)
        r2 == insert_rows("order_items", ins_items)
        made == <<QueryCall("customer", cq.sql, cq.params, oc),
                  InsertCall("orders", <<order_to_insert>>, ins_order)>>
                \o (IF r1.ok THEN <<InsertCall("order_items", order_items_to_insert, ins_items)>> ELSE <<>>)
        error_details == (IF r1.ok THEN <<>> ELSE <<Detail("Order insert failed: ", r1.err)>>)
                         \o (IF r2.ok THEN <<>> ELSE <<Detail("Order items insert failed: ", r2.err)>>)
    IN  IF chk = "missing" THEN Outcome(Resp(400, MissingBody(data, required)), <<>>, 0)
        ELSE IF chk = "raise" THEN Outcome(Crash("TypeError"), <<>>, 0)
        ELSE IF data.kind # "object" THEN Outcome(Crash("TypeError"), <<>>, 0)
        ELSE IF data.f["items"].t # "list" \/ items = <<>>
        THEN Outcome(Invalid("Field 'items' must be a non-empty list."), <<>>, 0)
        ELSE IF n < Len(items)
        THEN CASE ItemCheck(bad) = "raise" ->
                      Outcome(InternalError("An internal error occurred."), <<>>, 1 + n)
               [] ItemCheck(bad) = "missing" ->
                      Outcome(Invalid("Each item in 'items' must have 'product_id' and 'quantity_kg'."),
                              <<>>, 1 + n)
               [] ItemCheck(bad) = "format" ->
                      Outcome(Resp(400, Body("error", Msg("Invalid quantity_kg format for product. Expected integer.",
                                                          <<bad.product_id.s>>), <<>>, NoPayload)), <<>>, 1 + n)
               [] OTHER ->
                      Outcome(Resp(400, Body("error", Msg("Invalid quantity for product. Must be positive integer.",
                                                          <<bad.product_id.s>>), <<>>, NoPayload)), <<>>, 1 + n)
        ELSE IF r1.ok /\ r2.ok
        THEN Outcome(Resp(200, Body("success", Msg("Purchase order placed successfully.", <<>>), <<>>,
                                    [kind |-> "order", order_id |-> order_id, total_amount |-> total_amount])),
                     made, 1 + n)
        ELSE Outcome(Resp(500, Body("error", Msg("Failed to place purchase order.", <<>>),
                                    error_details, NoPayload)), made, 1 + n)

handle_place_purchase_order(data, u, oc, ins_order, ins_items, prices) ==
    LET required == <<"customer_id", "items">>
        chk == RequiredCheck(data, required)
        items == data.f["items"].l
        good == Accepted(items)
        n == Len(good)
        bad == items[n + 1]
        order_id == u + 1
        quantity(i) == PyInt(good[i].quantity_kg).v.n
        order_items_to_insert ==
            [i \in 1..n |-> [order_item_id |-> u + 1 + i,
                             order_id |-> order_id,
                             product_id |-> good[i].product_id,
                             ordered_quantity_kg |-> quantity(i),
                             price_per_kg_at_order |-> prices[i],
                             line_item_total |-> quantity(i) * prices[i]]]
        total_amount == Sum([i \in 1..n |-> order_items_to_insert[i].line_item_total])
        cq == order_customer_query(data.f["customer_id"])
        c == fetch_rows(oc)
        delivery_address == IF c.ok /\ Len(c.rows) > 0 THEN c.rows[1].shipping_address
                            ELSE JStr("Unknown Address")
        order_to_insert == [order_id |-> order_id,
                            customer_id |-> data.f["customer_id"],
                            order_date |-> JStr(Today),
                            delivery_date_requested |-> GetOr(data, "delivery_date_requested", JStr(Today)),
                            delivery_address |-> GetOr(data, "delivery_address", delivery_address),
                            status |-> GetOr(data, "status", JStr("Pending")),
                            total_amount |-> total_amount]
        r1 == insert_rows("orders", ins_order)
        r2 == insert_rows("order_items", ins_items)
        made == <<QueryCall("customer", cq.sql, cq.params, oc),
                  InsertCall("orders", <<order_to_insert>>, ins_order),
                  InsertCall("order_items", order_items_to_insert, ins_items)>>
        error_details == (IF r1.ok THEN <<>> ELSE <<Detail("Order insert failed: ", r1.err)>>)
                         \o (IF r2.ok THEN <<>> ELSE <<Detail("Order items insert failed: ", r2.err)>>)
    IN  IF chk = "missing" THEN Outcome(Resp(400, MissingBody(data, required)), <<>>, 0)
        ELSE IF chk = "raise" THEN Outcome(Crash("TypeError"), <<>>, 0)
        ELSE IF data.kind # "object" THEN Outcome(Crash("TypeError"), <<>>, 0)
        ELSE IF data.f["items"].t # "list" \/ items = <<>>
        THEN Outcome(Invalid("Field 'items' must be a non-empty list."), <<>>, 0)
        ELSE IF n < Len(items)
        THEN CASE ItemCheck(bad) = "raise" ->
                      Outcome(InternalError("An internal error occurred."), <<>>, 1 + n)
               [] ItemCheck(bad) = "missing" ->
                      Outcome(Invalid("Each item in 'items' must have 'product_id' and 'quantity_kg'."),
                              <<>>, 1 + n)
               [] ItemCheck(bad) = "format" ->
                      Outcome(Resp(400, Body("error", Msg("Invalid quantity_kg format for product. Expected integer.",
                                                          <<bad.product_id.s>>), <<>>, NoPayload)), <<>>, 1 + n)
               [] OTHER ->
                      Outcome(Resp(400, Body("error", Msg("Invalid quantity for product. Must be positive integer.",
                                                          <<bad.product_id.s>>), <<>>, NoPayload)), <<>>, 1 + n)
        ELSE IF r1.ok /\ r2.ok
        THEN Outcome(Resp(200, Body("success", Msg("Purchase order placed successfully.", <<>>), <<>>,
                                    [kind |-> "order", order_id |-> order_id, total_amount |-> total_amount])),
                     made, 1 + n)
        ELSE Outcome(Resp(500, Body("error", Msg("Failed to place purchase order.", <<>>),
                                    error_details, NoPayload)), made, 1 + n)

MarketPaths == {"/forecast", "/prices/current", "/inventory/available", "/order"}

MarketEnv0 == [probe |-> "", o |-> Rows(<<>>), ostock |-> Rows(<<>>), oship |-> Rows(<<>>),
               osched |-> Rows(<<>>), oc |-> Rows(<<>>), ins_order |-> "", ins_items |-> "",
               prices |-> [i \in 1..MaxItems |-> 100], stored |-> <<>>]

marketflow_backend_function(req, u, en) ==
    IF req.method = "GET" /\ req.path = "/" THEN HealthCheck("MarketFlow AI Backend", en.probe)
    ELSE IF req.method = "POST"
    THEN IF req.json = NoneBody THEN Outcome(UnparsedBody(req), <<>>, 0)
         ELSE IF req.path = "/forecast" THEN handle_get_demand_forecast(req.json, en.o)
         ELSE IF req.path = "/prices/current" THEN handle_get_market_prices(req.json, en.o)
         ELSE IF req.path = "/inventory/available"
         THEN handle_check_product_availability(req.json, en.ostock, en.oship, en.osched)
         ELSE IF req.path = "/order"
         THEN handle_place_purchase_order(req.json, u, en.oc, en.ins_order, en.ins_items, en.prices)
         ELSE Outcome(NotFound404(req), <<>>, 0)
    ELSE Outcome(NotAllowed405(req), <<>>, 0)

Products == {Absent, JStr("P1"), JStr("P2")}
Regions == {Absent, JStr(""), JStr("North")}
ForecastDates == {Absent, JStr("2025-01-15"), JStr("15/01/2025")}

ForecastBodies ==
    {ObjBody(f) : f \in [product_id : Products, target_date_start : ForecastDates,
                         target_date_end : ForecastDates, region : Regions]}
    \cup OddBodies({"product_id", "target_date_start", "target_date_end"})

PricesBodies ==
    {ObjBody(f) : f \in [product_id : Products, date : ForecastDates \cup {JStr("2025-02-01")},
                         region : Regions]}
    \cup OddBodies({"product_id"})

AvailabilityBodies ==
    {ObjBody(f) : f \in [product_id : Products, location_id : {Absent, JStr(""), JStr("W1"), JStr("W2")}]}
    \cup OddBodies({"product_id"})

\* the elements an items list is made of
ItemKinds ==
    {Item(JStr("P1"), q) : q \in {Absent, Null, JInt(3), JInt(0), JFloat(25), JStr("12"), JStr("12.5")}}
    \cup {Item(Absent, JInt(3)), JStr("P1"), JInt(7), Null}

ItemLists == UNION {[1..n -> ItemKinds] : n \in 0..MaxItems}

OrderBodies ==
    {ObjBody(f) : f \in [customer_id : {Absent, JStr("C1")},
                         items : {Absent, Null, JStr("P1")} \cup {JList(l) : l \in ItemLists},
                         delivery_address : {Absent, JStr("2 Side St")}]}
    \cup OddBodies({"customer_id", "items"})

(***************************************************************************)
(* getoptimizedeliveryroute/main.py                                        *)
(*                                                                         *)
(* A duration text of the Routes API is a sequence of one-character        *)
(* strings, so that replace, split, strip and int work on it as str does.  *)
(***************************************************************************)
Digits == {"0", "1", "2", "3", "4", "5", "6", "7", "8", "9"}
DigitValue(c) ==
    CASE c = "0" -> 0 [] c = "1" -> 1 [] c = "2" -> 2 [] c = "3" -> 3 [] c = "4" -> 4
      [] c = "5" -> 5 [] c = "6" -> 6 [] c = "7" -> 7 [] c = "8" -> 8 [] OTHER -> 9

\* c in text
HasChar(text, c) == \E i \in 1..Len(text) : text[i] = c

\* text.replace(c, '')
Without(text, c) == SelectSeq(text, LAMBDA x : x # c)

\* text.split(c)
RECURSIVE Split(_, _)
Split(text, c) ==
    IF ~HasChar(text, c) THEN <<text>>
    ELSE LET i == CHOOSE k \in 1..Len(text) : text[k] = c /\ \A j \in 1..(k - 1) : text[j] # c
         IN  <<SubSeq(text, 1, i - 1)>> \o Split(SubSeq(text, i + 1, Len(text)), c)

\* text.strip()
RECURSIVE Strip(_)
Strip(text) ==
    IF text # <<>> /\ Head(text) = " " THEN Strip(Tail(text))
    ELSE IF text # <<>> /\ text[Len(text)] = " " THEN Strip(SubSeq(text, 1, Len(text) - 1))
    ELSE text

RECURSIVE DecimalValue(_)
DecimalValue(ds) == IF ds = <<>> THEN 0 ELSE DecimalValue(SubSeq(ds, 1, Len(ds) - 1)) * 10 + DigitValue(ds[Len(ds)])

\* int(text) of a str: the digits' value, ValueError for every other text
IntOfText(text) ==
    LET ds == Strip(text)
    IN  IF ds # <<>> /\ \A i \in 1..Len(ds) : ds[i] \in Digits THEN Ok(DecimalValue(ds))
        ELSE Raises("ValueError")

\* `minutes, seconds = text.split('m')`, then int(minutes) * 60 + int(seconds)
MinutesSeconds(text) ==
    LET parts == Split(text, "m")
    IN  IF Len(parts) # 2 \/ ~IntOfText(parts[1]).ok \/ ~IntOfText(parts[2]).ok THEN Raises("ValueError")
        ELSE Ok(IntOfText(parts[1]).v * 60 + IntOfText(parts[2]).v)

\* parse_duration_string: the seconds of the timedelta, or the exception raised
parse_duration_string(duration_str) ==
    IF duration_str = <<>> \/ ~HasChar(duration_str, "s") THEN Ok(0)
    ELSE LET parts == Split(Without(duration_str, "s"), "h")
         IN  IF Len(parts) > 1
             THEN LET hours == IntOfText(parts[1])
                      rest == Strip(parts[2])
                      tail == IF HasChar(rest, "m") THEN MinutesSeconds(rest)
                              ELSE IF rest # <<>> THEN IntOfText(rest)
                              ELSE Ok(0)
                  IN  IF hours.ok /\ tail.ok THEN Ok(hours.v * 3600 + tail.v) ELSE Raises("ValueError")
             ELSE IF HasChar(duration_str, "m") THEN MinutesSeconds(duration_str)
             ELSE IntOfText(duration_str)

\* the standalone functions' fetch_rows: (True, rows), or (False, str(e)) for every exception
fetch_rows_any(out) ==
    IF out.exc = "" THEN [ok |-> TRUE, rows |-> out.rows, err |-> ""]
    ELSE [ok |-> FALSE, rows |-> <<>>, err |-> StrE(out.exc)]

\* the Geocoding API's answers: coordinates, no result, a failed HTTP call
GeocodeOuts == {"OK", "ZERO_RESULTS", "RequestException"}

\* geocode_address: the coordinates (None when there are none) and the call made, if any
geocode_address(slot, address_string, api_key, out) ==
    IF ~api_key \/ ~Truthy(address_string) THEN [found |-> FALSE, calls |-> <<>>]
    ELSE [found |-> out = "OK",
          calls |-> <<WebCall("geocode", slot, address_string, IF out = "OK" THEN "" ELSE out)>>]

location_query(location_id) ==
    [sql |-> Sql("farm_profiles UNION ALL warehouses", "farm_location / location_address",
                 <<"farm_id = @loc_id", "warehouse_id = @loc_id">>, "LIMIT 1"),
     params |-> <<Param("loc_id", "STRING", location_id)>>]

\* The "Lat: .., Lon: .." texts of the synthetic data: after replace("Lon:", "") the
\* split on ", Lon:" finds nothing, float() of the one part raises and the except
\* clause falls through to geocoding, so every text is geocoded.
LocationTexts == {JStr("Lat: 12.5, Lon: 77.6"), JStr("12 Farm Rd"), JStr(""), Null}
LocationOuts == {Rows(<<>>)} \cup {Rows(<<[farm_location |-> x]>>) : x \in LocationTexts}
                \cup {Fails(e) : e \in FetchExcs}

\* get_location_coordinates: the query is not wrapped, so its exception is raised
get_location_coordinates(location_id, api_key, oo, geo) ==
    LET q == location_query(location_id)
        made == <<QueryCall("origin", q.sql, q.params, oo)>>
        g == geocode_address("geocode_origin", oo.rows[1].farm_location, api_key, geo)
    IN  IF oo.exc # "" THEN [raised |-> oo.exc, found |-> FALSE, calls |-> made]
        ELSE IF Len(oo.rows) = 0 THEN [raised |-> "", found |-> FALSE, calls |-> made]
        ELSE [raised |-> "", found |-> g.found, calls |-> made \o g.calls]

\* the most order rows the destination query gives back, and legs a route has
MaxOrders == 2
MaxLegs == 2

destinations_query(order_ids) ==
    [sql |-> Sql("orders o JOIN customers c ON o.customer_id = c.customer_id",
                 "o.order_id, o.delivery_address, CAST(RAND() * 4000 + 1000 AS INT64) AS total_kg",
                 <<"o.order_id IN UNNEST(@order_ids)">>, "GROUP BY o.order_id, o.delivery_address"),
     params |-> <<Param("order_ids", "ARRAY<STRING>", order_ids)>>]

OrderId(i) == JStr("O" \o ToString(i))
OrderRow(i, address) == [order_id |-> OrderId(i), delivery_address |-> address, total_kg |-> 1000 * i]
DestinationOuts ==
    UNION {{Rows([i \in 1..n |-> OrderRow(i, a[i])]) : a \in [1..n -> {JStr("5 Market St"), JStr("")}]} :
              n \in 0..MaxOrders}
    \cup {Fails(e) : e \in FetchExcs}

GeocodeSlot(i) == "geocode_order" \o ToString(i)

\* get_destination_details_for_orders: the rows that got coordinates, in query order
RECURSIVE GeocodedRows(_, _, _, _)
GeocodedRows(rows, i, api_key, geos) ==
    IF i > Len(rows) THEN [details |-> <<>>, calls |-> <<>>]
    ELSE LET g == geocode_address(GeocodeSlot(i), rows[i].delivery_address, api_key, geos[i])
             later == GeocodedRows(rows, i + 1, api_key, geos)
         IN  [details |-> (IF g.found THEN <<rows[i]>> ELSE <<>>) \o later.details,
              calls |-> g.calls \o later.calls]

get_destination_details_for_orders(order_ids, api_key, od, geos) ==
    LET q == destinations_query(order_ids)
        r == fetch_rows_any(od)
        g == GeocodedRows(r.rows, 1, api_key, geos)
    IN  [details |-> g.details, calls |-> <<QueryCall("destinations", q.sql, q.params, od)>> \o g.calls]

\* A variant of get_vehicle_details that sends the query a second time when it failed.
get_vehicle_details_retrying(vehicle_id, ov) ==
    LET q == vehicle_query(vehicle_id)
        once == <<QueryCall("vehicle", q.sql, q.params, ov)>>
    IN  [raised |-> IF fetch_rows_any(ov).ok THEN "" ELSE "Exception",
         calls |-> IF fetch_rows_any(ov).ok THEN once ELSE once \o once]

\* get_vehicle_details: the row or None, or the exception it raises when the query failed
get_vehicle_details(vehicle_id, ov) ==
    LET q == vehicle_query(vehicle_id)
    IN  [raised |-> IF fetch_rows_any(ov).ok THEN "" ELSE "Exception",
         calls |-> <<QueryCall("vehicle", q.sql, q.params, ov)>>]

\* duration texts a leg of the Routes API answer carries
D3600s == <<"3", "6", "0", "0", "s">>
D1h2m3s == <<"1", "h", "2", "m", "3", "s">>
LegLists == UNION {[1..n -> {D3600s, D1h2m3s, <<>>}] : n \in 0..MaxLegs}

\* the Routes API's answers: a failed HTTP call, no route, a route with its legs
RoutesOuts ==
    {[exc |-> "RequestException", routes |-> 0, legs |-> <<>>], [exc |-> "", routes |-> 0, legs |-> <<>>]}
    \cup {[exc |-> "", routes |-> 1, legs |-> l] : l \in LegLists}

\* call_routes_api_compute_routes: (True, result) or (False, error text)
call_routes_api_compute_routes(destination_details, api_key, out) ==
    IF ~api_key THEN [ok |-> FALSE, err |-> "API Key not configured.", calls |-> <<>>]
    ELSE IF destination_details = <<>>
    THEN [ok |-> FALSE, err |-> "No valid destinations with coordinates provided.", calls |-> <<>>]
    ELSE [ok |-> out.exc = "", err |-> IF out.exc = "" THEN "" ELSE StrE(out.exc),
          calls |-> <<WebCall("routes", "routes", JInt(Len(destination_details)), out.exc)>>]

\* seconds from the departure to the end of each leg; "raise" when a leg's duration
\* text makes parse_duration_string raise
LegsParse(legs) == \A i \in 1..Len(legs) : parse_duration_string(legs[i]).ok
RECURSIVE Cumulative(_, _)
Cumulative(legs, i) == IF i = 0 THEN 0 ELSE Cumulative(legs, i - 1) + parse_duration_string(legs[i]).v

Min(a, b) == IF a < b THEN a ELSE b

standalone_handle_optimize_delivery_route(req, en) ==
    LET request_json == req.json
        origin_id == Get(request_json, "origin_location_id")
        destination_order_ids == Get(request_json, "destination_order_ids")
        vehicle_id == Get(request_json, "vehicle_id")
        o == get_location_coordinates(origin_id, en.key, en.oo, en.geo)
        d == get_destination_details_for_orders(destination_order_ids, en.key, en.od, en.geos)
        v == IF Truthy(vehicle_id) THEN get_vehicle_details(vehicle_id, en.ov).calls ELSE <<>>
        r == call_routes_api_compute_routes(d.details, en.key, en.routes)
        legs == en.routes.legs
        stops == <<[stop_number |-> 0, id |-> origin_id, arrival_s |-> 0, duration |-> <<"0", "s">>]>>
                 \o [i \in 1..Min(Len(legs), Len(d.details)) |->
                        [stop_number |-> i, id |-> d.details[i].order_id,
                         arrival_s |-> Cumulative(legs, i), duration |-> legs[i]]]
    IN  IF req.method # "POST"
        THEN Outcome(Resp(405, ErrorBody(Msg("Method not allowed", <<>>), <<>>, NoPayload)), <<>>, 0)
        ELSE IF request_json.kind # "object" THEN Outcome(Crash("AttributeError"), <<>>, 0)
        ELSE IF ~Truthy(origin_id) \/ ~Truthy(destination_order_ids)
        THEN Outcome(Invalid("Missing required input parameters"), <<>>, 0)
        ELSE IF destination_order_ids.t # "list"
        THEN Outcome(Invalid("Field destination_order_ids must be a non-empty list."), <<>>, 0)
        ELSE IF o.raised # ""
        THEN Outcome(InternalError("Error retrieving necessary data"), o.calls, 0)
        ELSE IF ~o.found
        THEN Outcome(Resp(404, Body("not_found", Msg("Origin location ID not found or coordinates unavailable.",
                                                     <<origin_id.s>>), <<>>, NoPayload)), o.calls, 0)
        ELSE IF d.details = <<>>
        THEN Outcome(Resp(200, Body("unavailable",
                                    Msg("Could not find valid destinations or coordinates for provided order IDs.", <<>>),
                                    <<>>, NoPayload)), o.calls \o d.calls, 0)
        ELSE IF ~r.ok
        THEN Outcome(Resp(500, Body("error", Msg("Failed to compute route via routing service", <<>>),
                                    <<Detail("", r.err)>>, NoPayload)), o.calls \o d.calls \o v \o r.calls, 0)
        ELSE IF en.routes.routes = 0
        THEN Outcome(Resp(200, Body("unavailable",
                                    Msg("Could not compute a route with the provided locations.", <<>>),
                                    <<>>, NoPayload)), o.calls \o d.calls \o v \o r.calls, 0)
        ELSE IF ~LegsParse(legs) THEN Outcome(Crash("ValueError"), o.calls \o d.calls \o v \o r.calls, 0)
        ELSE Outcome(Resp(200, Body("success", NoMsg, <<>>,
                                    [kind |-> "route", vehicle_id |-> vehicle_id,
                                     num_stops_on_route |-> Len(legs) + 1,
                                     route_stops |-> stops,
                                     route_date |-> Get(request_json, "route_date")])),
                     o.calls \o d.calls \o v \o r.calls, 0)

OptimizerEnv0 == [key |-> TRUE, oo |-> Rows(<<>>), geo |-> "OK", od |-> Rows(<<>>),
                  geos |-> [i \in 1..MaxOrders |-> "OK"], ov |-> Rows(<<>>),
                  routes |-> [exc |-> "", routes |-> 0, legs |-> <<>>]]

\* The environment's part in one request, call by call: the outcome of a call is chosen
\* only when the handler, given the outcomes before it, gets as far as making that call.
OptimizerStages == 5 + MaxOrders
StageSlot(k) ==
    CASE k = 1 -> "origin"
      [] k = 2 -> "geocode_origin"
      [] k = 3 -> "destinations"
      [] k = 4 + MaxOrders -> "vehicle"
      [] k = 5 + MaxOrders -> "routes"
      [] OTHER -> GeocodeSlot(k - 3)

StandaloneVehicleOuts == {Rows(<<>>), Rows(<<[vehicle_id |-> "V1"]>>), Fails("Exception")}

StageChoices(req, en, k) ==
    CASE k = 1 -> {[en EXCEPT !.oo = x] : x \in LocationOuts}
      [] k = 2 -> {[en EXCEPT !.geo = x] : x \in GeocodeOuts}
      [] k = 3 -> {[en EXCEPT !.od = x] :
                      x \in {y \in DestinationOuts : Len(y.rows) <= Len(req.json.f["destination_order_ids"].l)}}
      [] k = 4 + MaxOrders -> {[en EXCEPT !.ov = x] : x \in StandaloneVehicleOuts}
      [] k = 5 + MaxOrders -> {[en EXCEPT !.routes = x] : x \in RoutesOuts}
      [] OTHER -> {[en EXCEPT !.geos[k - 3] = x] : x \in GeocodeOuts}

Consulted(made, slot) == \E i \in 1..Len(made) : made[i].slot = slot

RECURSIVE OptimizerEnvs(_, _, _)
OptimizerEnvs(req, en, k) ==
    IF k > OptimizerStages THEN {en}
    ELSE IF ~Consulted(standalone_handle_optimize_delivery_route(req, en).calls, StageSlot(k))
    THEN OptimizerEnvs(req, en, k + 1)
    ELSE UNION {OptimizerEnvs(req, e, k + 1) : e \in StageChoices(req, en, k)}

OptimizerBodies ==
    {ObjBody(f) : f \in [origin_location_id : {Absent, JStr("F1"), JStr("W1")},
                         destination_order_ids : {Absent, JStr("O1"), JList(<<>>)}
                                                 \cup {JList([i \in 1..n |-> OrderId(i)]) : n \in 1..MaxOrders},
                         vehicle_id : {Absent, JStr("V1")},
                         route_date : {Absent}]}
    \cup {NoneBody, ArrBody({}), NumBody(5)}

OptimizerRequests ==
    {Request("getoptimizedeliveryroute", m, "/", "application/json", b) : m \in {"POST", "GET"}, b \in OptimizerBodies}

(***************************************************************************)
(* getvehicledetails, getcustomerdetails, getfirmdetails, getproduct       *)
(***************************************************************************)
\* a query made on the client directly: every exception is caught with str(e)
LookupOuts == ListOuts

license_query(license_no) ==
    [sql |-> Sql("vehicles",
                 "vehicle_id, carrier_name, vehicle_type, capacity_kg, has_temperature_monitoring, vehicle_license_no",
                 <<"vehicle_license_no = @license_no">>, "LIMIT 1"),
     params |-> <<Param("license_no", "STRING", license_no)>>]

MissingLicense ==
    Resp(400, ErrorBody(Msg("Missing or empty vehicle_license_no in request body", <<>>), <<>>, NoPayload))

\* A variant of lookup_vehicle_by_license that answers an unknown license like the name
\* lookups do: 200 with an empty list of matches.
lookup_vehicle_empty_is_ok(req, out) ==
    LET request_json == req.json
        q == license_query(request_json.f["vehicle_license_no"])
        made == <<QueryCall("license", q.sql, q.params, out)>>
    IN  IF NotData(request_json) THEN Outcome(MissingLicense, <<>>, 0)
        ELSE IF InRaises(request_json) THEN Outcome(Crash("TypeError"), <<>>, 0)
        ELSE IF ~In(request_json, "vehicle_license_no") THEN Outcome(MissingLicense, <<>>, 0)
        ELSE IF request_json.kind # "object" THEN Outcome(Crash("TypeError"), <<>>, 0)
        ELSE IF ~Truthy(request_json.f["vehicle_license_no"]) THEN Outcome(MissingLicense, <<>>, 0)
        ELSE IF out.exc # ""
        THEN Outcome(Resp(500, ErrorBody(Msg("Internal server error during vehicle lookup", <<>>),
                                         <<Detail("", StrE(out.exc))>>, NoPayload)), made, 0)
        ELSE Outcome(Resp(200, ErrorBody(NoMsg, <<>>,
                                         [kind |-> "matches",
                                          matches |-> IF Len(out.rows) > 0 THEN <<out.rows[1]>> ELSE <<>>])),
                     made, 0)

lookup_vehicle_by_license(req, out) ==
    LET request_json == req.json
        q == license_query(request_json.f["vehicle_license_no"])
        made == <<QueryCall("license", q.sql, q.params, out)>>
    IN  IF NotData(request_json) THEN Outcome(MissingLicense, <<>>, 0)
        ELSE IF InRaises(request_json) THEN Outcome(Crash("TypeError"), <<>>, 0)
        ELSE IF ~In(request_json, "vehicle_license_no") THEN Outcome(MissingLicense, <<>>, 0)
        ELSE IF request_json.kind # "object" THEN Outcome(Crash("TypeError"), <<>>, 0)
        ELSE IF ~Truthy(request_json.f["vehicle_license_no"]) THEN Outcome(MissingLicense, <<>>, 0)
        ELSE IF out.exc # ""
        THEN Outcome(Resp(500, ErrorBody(Msg("Internal server error during vehicle lookup", <<>>),
                                         <<Detail("", StrE(out.exc))>>, NoPayload)), made, 0)
        ELSE IF Len(out.rows) > 0
        THEN Outcome(Resp(200, ErrorBody(NoMsg, <<>>, [kind |-> "matches", matches |-> <<out.rows[1]>>])),
                     made, 0)
        ELSE Outcome(Resp(404, ErrorBody(Msg("Vehicle with license not found",
                                             <<request_json.f["vehicle_license_no"].s>>),
                                         <<>>, [kind |-> "matches", matches |-> <<>>])), made, 0)

\* f'%{name}%'
Pattern(name) == JStr("%" \o name.s \o "%")

\* the three name lookups share one body: list the table when no name is given, else
\* search it with LIKE; `limited` tells whether the search query has a LIMIT 100
lookup_by_name(req, out, field, table, select, where, pattern, limited, what) ==
    LET request_json == req.json
        name_input == IF ~NotData(request_json) /\ In(request_json, field) THEN request_json.f[field] ELSE Null
        sql == IF ~Truthy(name_input) THEN Sql(table, select, <<>>, "LIMIT 100")
               ELSE Sql(table, select, <<where>>, IF limited THEN "LIMIT 100" ELSE "")
        params == IF ~Truthy(name_input) THEN <<>> ELSE <<Param(pattern, "STRING", Pattern(name_input))>>
        made == <<QueryCall(table, sql, params, out)>>
    IN  IF ~NotData(request_json) /\ InRaises(request_json) THEN Outcome(Crash("TypeError"), <<>>, 0)
        ELSE IF ~NotData(request_json) /\ In(request_json, field) /\ request_json.kind # "object"
        THEN Outcome(Crash("TypeError"), <<>>, 0)
        ELSE IF out.exc # ""
        THEN Outcome(Resp(500, ErrorBody(Msg("Internal server error during lookup", <<what>>),
                                         <<Detail("", StrE(out.exc))>>, NoPayload)), made, 0)
        ELSE Outcome(Resp(200, ErrorBody(NoMsg, <<>>, [kind |-> "matches", matches |-> out.rows])), made, 0)

lookup_customer_by_name(req, out) ==
    lookup_by_name(req, out, "customer_name_query", "customers",
                   "customer_id, customer_name, customer_type, shipping_address",
                   "LOWER(customer_name) LIKE LOWER(@query_pattern)", "query_pattern", TRUE, "customer")

lookup_farm_by_name(req, out) ==
    lookup_by_name(req, out, "farm_name", "farm_profiles", "farm_id, farm_name, farm_location, supplier_name",
                   "LOWER(farm_name) LIKE LOWER(@query_pattern) OR LOWER(farm_location) LIKE LOWER(@query_pattern)",
                   "query_pattern", TRUE, "farm")

lookup_product_by_name(req, out) ==
    lookup_by_name(req, out, "product_name", "product_catalog",
                   "product_id, product_name, category, storage_requirements",
                   "LOWER(product_name) LIKE LOWER(@product_name_pattern)", "product_name_pattern", FALSE, "product")

LookupBodies(field) ==
    {ObjBody([x \in {field} |-> v]) : v \in {Absent, Null, JStr(""), JStr("KA-01"), JStr("MH-12")}}
    \cup OddBodies({field}) \cup {NoneBody}

LookupRequests(service, field) ==
    {Request(service, m, "/", "application/json", b) : m \in {"POST", "GET"}, b \in LookupBodies(field)}

Post(service, path, bodies) == {Request(service, "POST", path, "application/json", b) : b \in bodies}

\* requests that no handler of the service gets: a body that did not parse, another method,
\* an unregistered path, the health check
Unrouted(service, paths, body) ==
    {Request(service, "POST", p, ct, NoneBody) : p \in paths \cup {"/", "/unknown"}, ct \in ContentTypes}
    \cup {Request(service, m, p, "application/json", b) :
            m \in Methods \ {"POST"}, p \in paths \cup {"/", "/unknown"}, b \in {NoneBody, body}}
    \cup {Request(service, "POST", p, "application/json", body) : p \in {"/", "/unknown"}}

(***************************************************************************)
(* The warehouse: the rows each table the handlers write to has been sent. *)
(***************************************************************************)
WriteTables == {"harvest_records", "farm_qc_issues", "cold_chain_readings", "orders", "order_items"}

\* A variant of ApplyInserts in which an insert replaces the table's rows (a load with
\* WRITE_TRUNCATE) instead of adding to them.
RECURSIVE ApplyInsertsReplacing(_, _)
ApplyInsertsReplacing(t, made) ==
    IF made = <<>> THEN t
    ELSE LET c == Head(made)
             t2 == IF c.op = "insert" /\ c.exc = ""
                   THEN [t EXCEPT ![c.slot] = c.rows] ELSE t
         IN  ApplyInsertsReplacing(t2, Tail(made))

RECURSIVE ApplyInserts(_, _)
ApplyInserts(t, made) ==
    IF made = <<>> THEN t
    ELSE LET c == Head(made)
             t2 == IF c.op = "insert" /\ c.exc = ""
                   THEN [t EXCEPT ![c.slot] = @ \o c.rows] ELSE t
         IN  ApplyInserts(t2, Tail(made))

NoRequest == Request("", "", "", "", NoneBody)
NoEnv == [probe |-> ""]

(***************************************************************************)
(* The processes.  Each service's module creates its warehouse client at   *)
(* import, before the process takes a request; the three backends then     *)
(* probe the warehouse and exit when the client or the probe fails.        *)
(***************************************************************************)
Services == {"agrioptimize", "logifresh", "marketflow", "getoptimizedeliveryroute",
             "getvehicledetails", "getcustomerdetails", "getfirmdetails", "getproduct"}

Loading == [state |-> "loading", bigquery_client |-> "None"]
Loaded == [state |-> "serving", bigquery_client |-> "Client"]

\* what bigquery.Client(...) and the SELECT 1 after it can do at import
ModuleInitOuts == {"", "DefaultCredentialsError", "GoogleAPIError", "Exception"}

\* A variant of module_init that reports a failed initialization and goes on to serve.
module_init_reporting_failure(out) ==
    IF out = "" THEN Loaded ELSE [state |-> "serving", bigquery_client |-> "None"]

\* the module-level initialization: the client, or sys.exit(1)
module_init(out) ==
    IF out = "" THEN Loaded ELSE [state |-> "exited", bigquery_client |-> "None"]

Init ==
    /\ process = [s \in Services |-> Loaded]
    /\ pc = "idle"
    /\ request = NoRequest
    /\ env = NoEnv
    /\ response = NoResp
    /\ calls = <<>>
    /\ tables = [t \in WriteTables |-> <<>>]
    /\ uuids = 0
    /\ served = <<>>

\* a handler ran to completion on `req`; `served` keeps the requests answered so far, each
\* with the warehouse before and after it
Finish(req, e, out) ==
    /\ pc' = "done"
    /\ request' = req
    /\ env' = e
    /\ response' = out.resp
    /\ calls' = out.calls
    /\ tables' = ApplyInserts(tables, out.calls)
    /\ uuids' = uuids + out.uuids
    /\ served' = Append(served, [request |-> req, env |-> e, response |-> out.resp, calls |-> out.calls,
                                 before |-> tables, after |-> ApplyInserts(tables, out.calls),
                                 client |-> process[req.service].bigquery_client])
    /\ UNCHANGED process

\* One request is served: the environment's part (envs) matters only to a handler that
\* gets as far as its first call, so a request the handler answers before any call is
\* served once, under env0.
Serve(reqs, Envs(_), env0, Run(_, _)) ==
    \E req \in reqs :
        IF Run(req, env0).calls = <<>>
        THEN Finish(req, env0, Run(req, env0))
        ELSE \E e \in Envs(req) : Finish(req, e, Run(req, e))

\* A variant of AgriRun whose identifiers start over with every request.
AgriRunRepeatingIds(req, en) == agrioptimize_backend_function(req, 0, en)

AgriRun(req, en) == agrioptimize_backend_function(req, uuids, en)
InsertEnvs(req) == {[AgriEnv0 EXCEPT !.ins = ins] : ins \in InsertOuts}
AdviceEnvs(req) ==
    {[AgriEnv0 EXCEPT !.oh = oh, !.oq = oq, !.os = os, !.of = of] :
        oh \in ListOuts, oq \in ListOuts, os \in ListOuts, of \in ListOuts}
PickupEnvs(req) == {[AgriEnv0 EXCEPT !.oa = oa, !.rnd = rnd] : oa \in AvailabilityOuts, rnd \in PickupRandoms}
AgriProbeEnvs(req) == {[AgriEnv0 EXCEPT !.probe = probe] : probe \in ProbeOuts}

AgriHarvest ==
    /\ pc = "idle"
    /\ Serve(Post("agrioptimize", "/harvest", HarvestBodies), InsertEnvs, AgriEnv0, AgriRun)

AgriAdvice ==
    /\ pc = "idle"
    /\ Serve(Post("agrioptimize", "/advice/harvest", AdviceBodies), AdviceEnvs, AgriEnv0, AgriRun)

AgriQcIssue ==
    /\ pc = "idle"
    /\ Serve(Post("agrioptimize", "/issue/farm", QcIssueBodies), InsertEnvs, AgriEnv0, AgriRun)

AgriPickup ==
    /\ pc = "idle"
    /\ Serve(Post("agrioptimize", "/schedule/pickup", PickupBodies), PickupEnvs, AgriEnv0, AgriRun)

AgriOther ==
    /\ pc = "idle"
    /\ Serve(Unrouted("agrioptimize", AgriPaths, ObjBody([farm_id |-> JStr("F1")])), AgriProbeEnvs, AgriEnv0, AgriRun)

LogiRun(req, en) == logifresh_backend_function(req, uuids, en)
ShipmentEnvs(req) == {[LogiEnv0 EXCEPT !.os = os, !.oc = oc] : os \in ShipmentOuts, oc \in ListOuts}
ColdChainEnvs(req) == {[LogiEnv0 EXCEPT !.ins = ins] : ins \in InsertOuts}
StockEnvs(req) == {[LogiEnv0 EXCEPT !.o = o] : o \in ListOuts}
\* the customer rows found are rows of requested ids, and the shuffle permutes those rows
RouteEnvs(req) ==
    {[LogiEnv0 EXCEPT !.ov = e[1], !.oc = e[2], !.rnd = e[3]] :
        e \in {x \in VehicleOuts \X CustomerOuts(Len(req.json.f["destination_locations"].l)) \X RouteRandoms :
                 Len(x[3].order) = Len(x[2].rows)}}
NoEnvs(req) == {LogiEnv0}
LogiProbeEnvs(req) == {[LogiEnv0 EXCEPT !.probe = probe] : probe \in ProbeOuts}

LogiShipment ==
    /\ pc = "idle"
    /\ Serve(Post("logifresh", "/shipment/status", ShipmentBodies), ShipmentEnvs, LogiEnv0, LogiRun)

LogiColdChain ==
    /\ pc = "idle"
    /\ Serve(Post("logifresh", "/issue/coldchain", ColdChainBodies), ColdChainEnvs, LogiEnv0, LogiRun)

LogiStock ==
    /\ pc = "idle"
    /\ Serve(Post("logifresh", "/inventory/stock", StockBodies), StockEnvs, LogiEnv0, LogiRun)

LogiRoute ==
    /\ pc = "idle"
    /\ Serve(Post("logifresh", "/route/optimize", RouteBodies), RouteEnvs, LogiEnv0, LogiRun)

LogiPickupRequest ==
    /\ pc = "idle"
    /\ Serve(Post("logifresh", "/logistics/schedule-pickup-request", PickupBodies), NoEnvs, LogiEnv0, LogiRun)

LogiOther ==
    /\ pc = "idle"
    /\ Serve(Unrouted("logifresh", LogiPaths, ObjBody([shipment_id |-> JStr("S1")])), LogiProbeEnvs, LogiEnv0, LogiRun)

MarketRun(req, en) == marketflow_backend_function(req, uuids, en)
AvailabilityEnvs(req) ==
    {[MarketEnv0 EXCEPT !.ostock = o1, !.oship = o2, !.osched = o3] : o1 \in SumOuts, o2 \in SumOuts, o3 \in SumOuts}
\* one price is drawn per item of the order
OrderEnvs(req) ==
    {[MarketEnv0 EXCEPT !.oc = oc, !.ins_order = i1, !.ins_items = i2, !.prices = p] :
        oc \in AddressOuts, i1 \in InsertOuts, i2 \in InsertOuts,
        p \in [1..Len(req.json.f["items"].l) -> {100, 499}]}
MarketProbeEnvs(req) == {[MarketEnv0 EXCEPT !.probe = probe] : probe \in ProbeOuts}

\* The warehouse's part in /forecast and /prices/current: the query is answered from the
\* rows stored in its table.  Every clause of the two queries is `column = @parameter`.
Equalities ==
    [c \in {"product_id = @product_id", "target_date_start = @start_date", "target_date_end = @end_date",
            "market_date = @market_date", "region = @region"} |->
        CASE c = "product_id = @product_id" -> <<"product_id", "product_id">>
          [] c = "target_date_start = @start_date" -> <<"target_date_start", "start_date">>
          [] c = "target_date_end = @end_date" -> <<"target_date_end", "end_date">>
          [] c = "market_date = @market_date" -> <<"market_date", "market_date">>
          [] OTHER -> <<"region", "region">>]

\* the value of the parameter called name, a DATE in its canonical text
ParamValue(params, name) ==
    LET p == params[CHOOSE i \in 1..Len(params) : params[i].name = name]
    IN  IF p.type = "DATE" /\ p.value.t = "str" /\ p.value.s \in DOMAIN DateText
        THEN JStr(DateText[p.value.s]) ELSE p.value

\* WHERE c1 AND c2 AND ...
RowMatches(row, q) ==
    \A i \in 1..Len(q.sql.where) :
        row[Equalities[q.sql.where[i]][1]] = ParamValue(q.params, Equalities[q.sql.where[i]][2])

\* the columns the SELECT names
Selected(row, columns) == [c \in columns |-> row[c]]

ForecastRow(id, product_id, region, start, day) ==
    [forecast_id |-> id, product_id |-> JStr(product_id), region |-> JStr(region),
     target_date_start |-> JStr(start), target_date_end |-> JStr("2025-01-15"), forecast_date |-> day]

\* demand_forecasts: empty, or six forecasts of P1 in the North for one period, made on six
\* days, among forecasts of another product, region and period
ForecastsStored ==
    [i \in 1..6 |-> ForecastRow(i, "P1", "North", "2025-01-15", i)]
    \o <<ForecastRow(7, "P2", "North", "2025-01-15", 7), ForecastRow(8, "P1", "South", "2025-01-15", 8),
         ForecastRow(9, "P1", "North", "2025-01-05", 9)>>
ForecastTables == {<<>>, ForecastsStored, SubSeq(ForecastsStored, 5, 9)}

\* ORDER BY forecast_date DESC LIMIT 5 (the days of the stored forecasts differ)
LatestFive(rows) ==
    LET later(i) == Cardinality({j \in 1..Len(rows) : rows[j].forecast_date > rows[i].forecast_date})
    IN  [k \in 1..(IF Len(rows) < 5 THEN Len(rows) ELSE 5) |-> rows[CHOOSE i \in 1..Len(rows) : later(i) = k - 1]]

ForecastColumns == {"forecast_id", "region", "forecast_date", "target_date_start", "target_date_end"}

ForecastEnvs(req) ==
    LET data == req.json
        q == forecast_query(data.f["product_id"], data.f["target_date_start"], data.f["target_date_end"],
                            Get(data, "region"))
        found(t) == LatestFive(SelectSeq(t, LAMBDA row : RowMatches(row, q)))
    IN  {[MarketEnv0 EXCEPT !.o = Rows([k \in 1..Len(found(t)) |-> Selected(found(t)[k], ForecastColumns)]),
                            !.stored = t] : t \in ForecastTables}
        \cup {[MarketEnv0 EXCEPT !.o = Fails(e)] : e \in FetchExcs}

PriceRow(id, product_id, region, day) ==
    [price_record_id |-> id, product_id |-> JStr(product_id), region |-> JStr(region),
     market_date |-> JStr(day), average_market_price_per_kg |-> 100 * id]

\* market_prices: empty, or the prices of P1 in two regions on two days and one of P2
PricesStored ==
    <<PriceRow(1, "P1", "North", "2025-01-15"), PriceRow(2, "P1", "South", "2025-01-15"),
      PriceRow(3, "P1", "North", "2025-02-01"), PriceRow(4, "P2", "North", "2025-01-15")>>
PriceTables == {<<>>, PricesStored, SubSeq(PricesStored, 3, 4)}

PriceColumns == {"price_record_id", "region", "market_date", "average_market_price_per_kg"}

\* LIMIT 1 without ORDER BY: any one of the rows that match
PricesEnvs(req) ==
    LET data == req.json
        q == prices_query(data.f["product_id"], GetOr(data, "date", JStr(Today)), Get(data, "region"))
        found(t) == SelectSeq(t, LAMBDA row : RowMatches(row, q))
    IN  UNION {IF found(t) = <<>> THEN {[MarketEnv0 EXCEPT !.o = Rows(<<>>), !.stored = t]}
               ELSE {[MarketEnv0 EXCEPT !.o = Rows(<<Selected(found(t)[i], PriceColumns)>>), !.stored = t] :
                        i \in 1..Len(found(t))}
               : t \in PriceTables}
        \cup {[MarketEnv0 EXCEPT !.o = Fails(e)] : e \in FetchExcs}

MarketForecast ==
    /\ pc = "idle"
    /\ Serve(Post("marketflow", "/forecast", ForecastBodies), ForecastEnvs, MarketEnv0, MarketRun)

MarketPrices ==
    /\ pc = "idle"
    /\ Serve(Post("marketflow", "/prices/current", PricesBodies), PricesEnvs, MarketEnv0, MarketRun)

MarketAvailability ==
    /\ pc = "idle"
    /\ Serve(Post("marketflow", "/inventory/available", AvailabilityBodies), AvailabilityEnvs, MarketEnv0, MarketRun)

MarketOrder ==
    /\ pc = "idle"
    /\ Serve(Post("marketflow", "/order", OrderBodies), OrderEnvs, MarketEnv0, MarketRun)

MarketOther ==
    /\ pc = "idle"
    /\ Serve(Unrouted("marketflow", MarketPaths, ObjBody([product_id |-> JStr("P1")])), MarketProbeEnvs,
             MarketEnv0, MarketRun)

RouteOptimizer ==
    /\ pc = "idle"
    /\ \E req \in OptimizerRequests, key \in BOOLEAN :
           \E e \in OptimizerEnvs(req, [OptimizerEnv0 EXCEPT !.key = key], 1) :
               Finish(req, e, standalone_handle_optimize_delivery_route(req, e))

LookupRun(req, en) ==
    CASE req.service = "getvehicledetails" -> lookup_vehicle_by_license(req, en)
      [] req.service = "getcustomerdetails" -> lookup_customer_by_name(req, en)
      [] req.service = "getfirmdetails" -> lookup_farm_by_name(req, en)
      [] OTHER -> lookup_product_by_name(req, en)
LookupEnvs(req) == LookupOuts

\* the vehicles table of the warehouse: no vehicle, one, two with one license, two with two
Vehicle(id, license_no) == [vehicle_id |-> id, vehicle_license_no |-> JStr(license_no)]
VehicleTables ==
    {<<>>, <<Vehicle("V1", "KA-01")>>, <<Vehicle("V1", "MH-12")>>,
     <<Vehicle("V1", "KA-01"), Vehicle("V2", "KA-01")>>, <<Vehicle("V1", "KA-01"), Vehicle("V2", "MH-12")>>}

\* WHERE vehicle_license_no = @license_no
LicenseMatches(vehicles, license_no) == SelectSeq(vehicles, LAMBDA v : v.vehicle_license_no = license_no)

\* the answers of the warehouse to the license query: it raises, or it gives the rows of
\* the table that have the license, cut by LIMIT 1 to any one of them (no ORDER BY)
LicenseEnvs(req) ==
    LET license_no == req.json.f["vehicle_license_no"]
    IN  UNION {LET m == LicenseMatches(t, license_no)
               IN  IF m = <<>> THEN {[exc |-> "", rows |-> <<>>, vehicles |-> t]}
                   ELSE {[exc |-> "", rows |-> <<m[i]>>, vehicles |-> t] : i \in 1..Len(m)}
               : t \in VehicleTables}
        \cup {[exc |-> e, rows |-> <<>>, vehicles |-> <<>>] : e \in FetchExcs}

LookupVehicle ==
    /\ pc = "idle"
    /\ Serve(LookupRequests("getvehicledetails", "vehicle_license_no"), LicenseEnvs, Rows(<<>>), LookupRun)

LookupCustomer ==
    /\ pc = "idle"
    /\ Serve(LookupRequests("getcustomerdetails", "customer_name_query"), LookupEnvs, Rows(<<>>), LookupRun)

LookupFarm ==
    /\ pc = "idle"
    /\ Serve(LookupRequests("getfirmdetails", "farm_name"), LookupEnvs, Rows(<<>>), LookupRun)

LookupProduct ==
    /\ pc = "idle"
    /\ Serve(LookupRequests("getproduct", "product_name"), LookupEnvs, Rows(<<>>), LookupRun)

Next ==
    \/ AgriHarvest
    \/ AgriAdvice
    \/ AgriQcIssue
    \/ AgriPickup
    \/ AgriOther
    \/ LogiShipment
    \/ LogiColdChain
    \/ LogiStock
    \/ LogiRoute
    \/ LogiPickupRequest
    \/ LogiOther
    \/ MarketForecast
    \/ MarketPrices
    \/ MarketAvailability
    \/ MarketOrder
    \/ MarketOther
    \/ RouteOptimizer
    \/ LookupVehicle
    \/ LookupCustomer
    \/ LookupFarm
    \/ LookupProduct

Spec == Init /\ [][Next]_vars

(***************************************************************************)
(* Requests one after another against one warehouse.  The rows a write     *)
(* handler inserts stay in `tables`, and the availability query of         *)
(* /schedule/pickup reads harvest_records as the inserts left it.          *)
(***************************************************************************)
MaxRequests == 3

\* days since 2024-12-31 of the dates the requests use
DayNumber == [d \in {"2025-01-05", "2025-01-15"} |-> IF d = "2025-01-05" THEN 5 ELSE 15]

RECURSIVE SumKg(_)
SumKg(rows) == IF rows = <<>> THEN 0 ELSE Head(rows).harvested_quantity_kg.n + SumKg(Tail(rows))

\* what the warehouse answers to availability_query: SUM(harvested_quantity_kg) over the rows of
\* the farm and product dated on or after the requested date minus 7 days, NULL when there are none
availability_rows(t, farm_id, product_id, requested_date_iso) ==
    LET found == SelectSeq(t["harvest_records"],
                           LAMBDA r : /\ r.farm_id = farm_id
                                      /\ r.product_id = product_id
                                      /\ DayNumber[r.harvest_date.s] >= DayNumber[requested_date_iso.s] - 7)
    IN  <<[total_harvested |-> IF found = <<>> THEN Null ELSE JInt(SumKg(found))]>>

SeqHarvestBodies ==
    {b \in HarvestBodies :
        /\ b.kind = "object"
        /\ b.f["farm_id"] = JStr("F1") /\ b.f["product_id"] = JStr("F1")
        /\ b.f["harvested_quantity_kg"] \in {JInt(5), JStr("abc")}
        /\ b.f["harvest_date"] \in {JStr("2025-01-15"), JStr("2025-1-5")}
        /\ (b.f["harvested_quantity_kg"] = JStr("abc") => b.f["harvest_date"] = JStr("2025-01-15"))
        /\ b.f["estimated_yield_kg"] = Absent /\ b.f["quality_score"] = Absent
        /\ b.f["planting_date"] = Absent}

SeqPickupBodies ==
    {b \in PickupBodies :
        /\ b.kind = "object"
        /\ b.f["farm_id"] = JStr("F1") /\ b.f["product_id"] = JStr("F1")
        /\ b.f["quantity_kg"] \in {JInt(5), JStr("12")}
        /\ b.f["requested_date"] = JStr("2025-01-15")}

SeqQcIssueBodies ==
    {b \in QcIssueBodies :
        /\ b.kind = "object"
        /\ b.f["farm_id"] = JStr("F1") /\ b.f["issue_type"] = JStr("Pest")
        /\ b.f["product_id"] = Absent /\ b.f["issue_date"] = Absent
        /\ b.f["affected_quantity_kg"] = JInt(5) /\ b.f["severity"] = Absent}

SeqColdChainBodies ==
    {b \in ColdChainBodies :
        /\ b.kind = "object"
        /\ b.f["shipment_id"] = JStr("S1") /\ b.f["temperature_celsius"] = JInt(8)
        /\ b.f["timestamp"] = JStr("2025-01-15T10:00:00Z") /\ b.f["vehicle_id"] = Absent}

SeqOrderBodies ==
    {b \in OrderBodies :
        /\ b.kind = "object"
        /\ b.f["customer_id"] = JStr("C1") /\ b.f["delivery_address"] = Absent
        /\ b.f["items"] \in {JList(<<Item(JStr("P1"), JInt(3)), Item(JStr("P1"), q)>>) : q \in {JInt(3), JInt(0)}}}

\* an insert or a query goes through, or the client raises
SeqInsertEnvs(req) == {[AgriEnv0 EXCEPT !.ins = ins] : ins \in {"", "Exception"}}
SeqColdChainEnvs(req) == {[LogiEnv0 EXCEPT !.ins = ins] : ins \in {"", "Exception"}}
SeqOrderEnvs(req) ==
    {[MarketEnv0 EXCEPT !.ins_order = i[1], !.ins_items = i[2]] :
        i \in {<<"", "">>, <<"Exception", "">>, <<"", "Exception">>}}
SeqPickupEnvs(req) ==
    {[AgriEnv0 EXCEPT !.oa = oa] :
        oa \in {Rows(availability_rows(tables, req.json.f["farm_id"], req.json.f["product_id"],
                                       PyDateIso(req.json.f["requested_date"]).v)),
                Fails("Exception")}}

SeqHarvest ==
    /\ Len(served) < MaxRequests
    /\ Serve(Post("agrioptimize", "/harvest", SeqHarvestBodies), SeqInsertEnvs, AgriEnv0, AgriRun)

SeqQcIssue ==
    /\ Len(served) < MaxRequests
    /\ Serve(Post("agrioptimize", "/issue/farm", SeqQcIssueBodies), SeqInsertEnvs, AgriEnv0, AgriRun)

SeqPickup ==
    /\ Len(served) < MaxRequests
    /\ Serve(Post("agrioptimize", "/schedule/pickup", SeqPickupBodies), SeqPickupEnvs, AgriEnv0, AgriRun)

SeqColdChain ==
    /\ Len(served) < MaxRequests
    /\ Serve(Post("logifresh", "/issue/coldchain", SeqColdChainBodies), SeqColdChainEnvs, LogiEnv0, LogiRun)

SeqPickupRequest ==
    /\ Len(served) < MaxRequests
    /\ Serve(Post("logifresh", "/logistics/schedule-pickup-request",
                  {b \in SeqPickupBodies : b.f["quantity_kg"] = JInt(5)}), NoEnvs, LogiEnv0, LogiRun)

SeqOrder ==
    /\ Len(served) < MaxRequests
    /\ Serve(Post("marketflow", "/order", SeqOrderBodies), SeqOrderEnvs, MarketEnv0, MarketRun)

NextSeq ==
    \/ SeqHarvest
    \/ SeqQcIssue
    \/ SeqPickup
    \/ SeqColdChain
    \/ SeqPickupRequest
    \/ SeqOrder

SpecSeq == Init /\ [][NextSeq]_vars

(***************************************************************************)
(* Processes from their start: the module is imported, then requests are   *)
(* served for as long as the process lives.                                *)
(***************************************************************************)
InitStart ==
    /\ process = [s \in Services |-> IF s \in {"agrioptimize", "logifresh"} THEN Loading ELSE Loaded]
    /\ pc = "idle"
    /\ request = NoRequest
    /\ env = NoEnv
    /\ response = NoResp
    /\ calls = <<>>
    /\ tables = [t \in WriteTables |-> <<>>]
    /\ uuids = 0
    /\ served = <<>>

\* the import of the service's module
ColdStart(service) ==
    /\ \E out \in ModuleInitOuts : process' = [process EXCEPT ![service] = module_init(out)]
    /\ UNCHANGED <<pc, request, env, response, calls, tables, uuids, served>>

ColdStartAgri ==
    /\ process["agrioptimize"].state = "loading"
    /\ ColdStart("agrioptimize")

ColdStartLogi ==
    /\ process["logifresh"].state = "loading"
    /\ ColdStart("logifresh")

StartedHarvest ==
    /\ process["agrioptimize"].state = "serving"
    /\ SeqHarvest

StartedPickup ==
    /\ process["agrioptimize"].state = "serving"
    /\ SeqPickup

StartedColdChain ==
    /\ process["logifresh"].state = "serving"
    /\ SeqColdChain

NextStart ==
    \/ ColdStartAgri
    \/ ColdStartLogi
    \/ StartedHarvest
    \/ StartedPickup
    \/ StartedColdChain

SpecStart == InitStart /\ [][NextStart]_vars

(***************************************************************************)
(* Properties.  They speak of the state after a request: the request, the  *)
(* environment's answers, the response, the calls made and the tables.     *)
(***************************************************************************)
Done == pc = "done"
Dispatchers == {"agrioptimize", "logifresh", "marketflow"}
ToDispatcher == Done /\ request.service \in Dispatchers

\* the required fields of the routes of the specification's route table
TableRequired ==
    [agrioptimize |->
        [p \in {"/harvest", "/issue/farm", "/schedule/pickup"} |->
            CASE p = "/harvest" -> <<"farm_id", "product_id", "harvested_quantity_kg", "harvest_date">>
              [] p = "/issue/farm" -> <<"farm_id", "issue_type">>
              [] OTHER -> <<"farm_id", "product_id", "quantity_kg", "requested_date">>],
     logifresh |->
        [p \in {"/shipment/status", "/issue/coldchain", "/inventory/stock", "/route/optimize"} |->
            CASE p = "/shipment/status" -> <<"shipment_id">>
              [] p = "/issue/coldchain" -> <<"shipment_id", "temperature_celsius", "timestamp">>
              [] p = "/inventory/stock" -> <<"location_id">>
              [] OTHER -> <<"destination_locations", "vehicle_id">>],
     marketflow |->
        [p \in {"/forecast", "/prices/current", "/order"} |->
            CASE p = "/forecast" -> <<"product_id", "target_date_start", "target_date_end">>
              [] p = "/prices/current" -> <<"product_id">>
              [] OTHER -> <<"customer_id", "items">>]]

\* a POST with a JSON object to a route of the table
TablePost ==
    /\ ToDispatcher
    /\ request.method = "POST"
    /\ request.path \in DOMAIN TableRequired[request.service]
    /\ request.json.kind = "object"

\* the fields among `required` that the object sent has no key for
Lacking(required) == SelectSeq(required, LAMBDA k : request.json.f[k] = Absent)

\* C1: a POST of a JSON object to a route of the table that lacks required fields gets
\* 400, status "error" and a message listing exactly the lacking fields in declaration
\* order, and no warehouse call is made.
C1_MissingFieldsGive400 ==
    (TablePost /\ Lacking(TableRequired[request.service][request.path]) # <<>>) =>
        /\ response.raised = ""
        /\ response.status = 400
        /\ response.body.status = "error"
        /\ response.body.message =
               Msg("Missing required fields in body: ", Lacking(TableRequired[request.service][request.path]))
        /\ calls = <<>>

\* POST /harvest without harvested_quantity_kg (all else given) was answered 400
C1_HarvestWithoutQuantity ==
    /\ TablePost
    /\ request.path = "/harvest"
    /\ Lacking(TableRequired.agrioptimize["/harvest"]) = <<"harvested_quantity_kg">>
    /\ response.status = 400

\* the four handlers outside the route table, sent a JSON object that lacks a required field
PickupRequestLacking ==
    /\ Done
    /\ request.service = "logifresh" /\ request.method = "POST"
    /\ request.path = "/logistics/schedule-pickup-request"
    /\ request.json.kind = "object"
    /\ Lacking(<<"farm_id", "product_id", "quantity_kg", "requested_date">>) # <<>>
AvailableLacking ==
    /\ Done
    /\ request.service = "marketflow" /\ request.method = "POST" /\ request.path = "/inventory/available"
    /\ request.json.kind = "object"
    /\ Lacking(<<"product_id">>) # <<>>
OptimizerLacking ==
    /\ Done
    /\ request.service = "getoptimizedeliveryroute" /\ request.method = "POST"
    /\ request.json.kind = "object"
    /\ Lacking(<<"origin_location_id", "destination_order_ids">>) # <<>>
LicenseLacking ==
    /\ Done
    /\ request.service = "getvehicledetails"
    /\ request.json.kind = "object"
    /\ Lacking(<<"vehicle_license_no">>) # <<>>

\* the response's message names the fields: it lists them, or it is the text about the one
\* field of the vehicle-license lookup
NamesFields(fields) ==
    \/ response.body.message.args = fields
    \/ fields = <<"vehicle_license_no">>
         /\ response.body.error.text = "Missing or empty vehicle_license_no in request body"

\* C2 as stated: each of the four handlers outside the route table answers a request
\* lacking a required field with 400 and a message naming the missing fields.
C2_AllFourGive400NamingFields ==
    /\ PickupRequestLacking =>
           response.status = 400
           /\ NamesFields(Lacking(<<"farm_id", "product_id", "quantity_kg", "requested_date">>))
    /\ AvailableLacking => response.status = 400 /\ NamesFields(<<"product_id">>)
    /\ OptimizerLacking =>
           response.status = 400 /\ NamesFields(Lacking(<<"origin_location_id", "destination_order_ids">>))
    /\ LicenseLacking => response.status = 400 /\ NamesFields(<<"vehicle_license_no">>)

\* C2 amended: on a JSON object lacking a required field, the pickup-request route answers
\* HTTP 200 with status "error" and the list of the lacking fields, /inventory/available
\* answers 400 listing product_id, the standalone optimizer answers 400 with a fixed
\* message that names no field, and the vehicle-license lookup answers 400 with an error
\* text about vehicle_license_no; none of them calls the warehouse.
C2_MissingFieldOutsideTable ==
    /\ PickupRequestLacking =>
           /\ response.status = 200
           /\ response.body.status = "error"
           /\ response.body.message =
                  Msg("Logistics Pickup Request Error: Missing required fields: ",
                      Lacking(<<"farm_id", "product_id", "quantity_kg", "requested_date">>))
           /\ calls = <<>>
    /\ AvailableLacking =>
           /\ response.status = 400
           /\ response.body.message = Msg("Missing required fields in body: ", <<"product_id">>)
           /\ calls = <<>>
    /\ OptimizerLacking =>
           /\ response.status = 400
           /\ response.body.message = Msg("Missing required input parameters", <<>>)
           /\ calls = <<>>
    /\ LicenseLacking =>
           /\ response.status = 400
           /\ response.body.error = Msg("Missing or empty vehicle_license_no in request body", <<>>)
           /\ calls = <<>>

\* a pickup request without its quantity was answered 200 with status "error"
C2_PickupRequestAnswered200 ==
    /\ PickupRequestLacking
    /\ Lacking(<<"farm_id", "product_id", "quantity_kg", "requested_date">>) = <<"quantity_kg">>
    /\ response.status = 200
    /\ response.body.status = "error"

\* a POST of a JSON object to `path` of `service` that has a key for every required field
CompletePost(service, path, required) ==
    /\ Done
    /\ request.service = service /\ request.method = "POST" /\ request.path = path
    /\ request.json.kind = "object"
    /\ Lacking(required) = <<>>

\* the value sent is not a date in YYYY-MM-DD form, not a number, not an ISO timestamp
MalformedDate(v) == v.t # "str" \/ v.s \notin DOMAIN DateText
NonNumeric(v) == ~PyFloat(v).ok
MalformedTimestamp(v) == v.t # "str" \/ v.s \notin DOMAIN TimestampText

\* C3 as stated: a request with every required field present and one of them malformed
\* (a date not in YYYY-MM-DD form, a non-numeric quantity or temperature, a non-ISO
\* timestamp) is answered 400, on /harvest, /schedule/pickup, /issue/coldchain, /forecast
\* and /prices/current.
C3_MalformedFieldsGive400 ==
    /\ (/\ CompletePost("agrioptimize", "/harvest",
                        <<"farm_id", "product_id", "harvested_quantity_kg", "harvest_date">>)
        /\ \/ MalformedDate(request.json.f["harvest_date"])
           \/ NonNumeric(request.json.f["harvested_quantity_kg"]))
           => response.status = 400
    /\ (/\ CompletePost("agrioptimize", "/schedule/pickup",
                        <<"farm_id", "product_id", "quantity_kg", "requested_date">>)
        /\ \/ MalformedDate(request.json.f["requested_date"])
           \/ NonNumeric(request.json.f["quantity_kg"]))
           => response.status = 400
    /\ (/\ CompletePost("logifresh", "/issue/coldchain",
                        <<"shipment_id", "temperature_celsius", "timestamp">>)
        /\ \/ NonNumeric(request.json.f["temperature_celsius"])
           \/ MalformedTimestamp(request.json.f["timestamp"]))
           => response.status = 400
    /\ (/\ CompletePost("marketflow", "/forecast",
                        <<"product_id", "target_date_start", "target_date_end">>)
        /\ \/ MalformedDate(request.json.f["target_date_start"])
           \/ MalformedDate(request.json.f["target_date_end"]))
           => response.status = 400
    /\ (/\ CompletePost("marketflow", "/prices/current", <<"product_id">>)
        /\ request.json.f["date"] # Absent
        /\ MalformedDate(request.json.f["date"]))
           => response.status = 400

\* the i-th call of the request was a warehouse query or insert that failed
FailedAt(i) == calls[i].op \in {"query", "insert"} /\ calls[i].exc # ""

\* the error text the warehouse helper hands the handler for the failed call c
HelperErr(c) ==
    IF c.op = "insert" THEN insert_rows(c.slot, c.exc).err
    ELSE IF request.service \in Dispatchers THEN fetch_rows(Fails(c.exc)).err
    ELSE fetch_rows_any(Fails(c.exc)).err

\* the response is a 500 whose details carry the helper's error text for the call c
Gives500With(c) ==
    /\ response.status = 500
    /\ \E j \in DOMAIN response.body.details : response.body.details[j].err = HelperErr(c)

Tolerated(service, path, slot) ==
    \/ service = "agrioptimize" /\ path = "/advice/harvest"
    \/ service = "logifresh" /\ path = "/shipment/status" /\ slot = "cold_chain"
    \/ service = "logifresh" /\ path = "/route/optimize" /\ slot = "customers"
    \/ service = "marketflow" /\ path = "/order" /\ slot = "customer"
    \/ service = "getoptimizedeliveryroute"

\* what the response is after the failure of a tolerated call c
AfterTolerated(c) ==
    CASE request.service = "agrioptimize" ->
             \* 500 only when the three list queries gave nothing and did not fail
             /\ response.status = (IF env.oh = Rows(<<>>) /\ env.oq = Rows(<<>>) /\ env.os = Rows(<<>>)
                                   THEN 500 ELSE 200)
             /\ response.body.status = (IF response.status = 200 THEN "warning" ELSE "error")
             /\ \E j \in DOMAIN response.body.details : response.body.details[j].err = HelperErr(c)
      [] request.service = "logifresh" /\ c.slot = "cold_chain" ->
             /\ response.status = 200
             /\ response.body.status = "warning"
             /\ response.body.details = <<Detail("Cold chain query failed: ", "[]")>>
      [] request.service = "logifresh" /\ c.slot = "customers" ->
             /\ response.status = 200
             /\ response.body.status = "unavailable"
             /\ response.body.details = <<>>
      [] request.service = "marketflow" ->
             response.status =
                 (IF \A j \in DOMAIN calls : calls[j].op = "insert" => calls[j].exc = "" THEN 200 ELSE 500)
      [] c.slot = "origin" ->
             /\ response.status = 500
             /\ response.body.message = Msg("Error retrieving necessary data", <<>>)
             /\ response.body.details = <<>>
      [] c.slot = "destinations" ->
             /\ response.status = 200
             /\ response.body.status = "unavailable"
      [] OTHER ->
             \* the vehicle lookup of the route optimizer: its failure is ignored
             response.status = 500 => \E j \in DOMAIN calls : calls[j].op = "routes" /\ calls[j].exc # ""

C5_EveryRequestAnswered == Done => (response.raised = "" /\ response.status # 0)

\* the registered POST paths of each dispatcher
Registered ==
    [agrioptimize |-> {"/harvest", "/advice/harvest", "/issue/farm", "/schedule/pickup"},
     logifresh |-> {"/shipment/status", "/issue/coldchain", "/inventory/stock", "/route/optimize",
                    "/logistics/schedule-pickup-request"},
     marketflow |-> {"/forecast", "/prices/current", "/inventory/available", "/order"}]

\* what the handler registered for the request's path does with the request's body, given
\* what the environment answered
HandlerOutcome ==
    LET data == request.json
        p == request.path
    IN  CASE p = "/harvest" -> handle_log_harvest(data, 0, env.ins)
          [] p = "/advice/harvest" -> handle_get_harvest_advice(data, env.oh, env.oq, env.os, env.of)
          [] p = "/issue/farm" -> handle_report_farm_qc_issue(data, 0, env.ins)
          [] p = "/schedule/pickup" -> handle_schedule_farm_pickup(data, env.oa, env.rnd)
          [] p = "/shipment/status" -> handle_track_shipment_location(data, env.os, env.oc)
          [] p = "/issue/coldchain" -> handle_report_cold_chain_issue(data, 0, env.ins)
          [] p = "/inventory/stock" -> handle_check_warehouse_stock(data, env.o)
          [] p = "/route/optimize" -> handle_optimize_delivery_route(data, env.ov, env.oc, env.rnd)
          [] p = "/logistics/schedule-pickup-request" -> handle_schedule_farm_pickup_logistics(data)
          [] p = "/forecast" -> handle_get_demand_forecast(data, env.o)
          [] p = "/prices/current" -> handle_get_market_prices(data, env.o)
          [] p = "/inventory/available" ->
                 handle_check_product_availability(data, env.ostock, env.oship, env.osched)
          [] OTHER -> handle_place_purchase_order(data, 0, env.oc, env.ins_order, env.ins_items, env.prices)

HealthRequest == ToDispatcher /\ request.method = "GET" /\ request.path = "/"

\* C6 as stated: the outcome is fixed by (method, path) alone: GET / is the health check,
\* POST on a registered path is that path's handler, POST elsewhere is 404 and anything
\* else is 405, the last two without a warehouse call.
C6_MethodAndPathDecide ==
    ToDispatcher =>
        IF HealthRequest THEN Len(calls) = 1 /\ calls[1].slot = "probe"
        ELSE IF request.method # "POST" THEN response.status = 405 /\ calls = <<>>
        ELSE IF request.path \in Registered[request.service]
        THEN response = HandlerOutcome.resp /\ calls = HandlerOutcome.calls
        ELSE response.status = 404 /\ calls = <<>>

\* C6 amended: as above for every request but a POST whose body did not parse, which is
\* answered 415 or 400 whatever its path, without a handler or a warehouse call.
C6_DispatchOfParsedRequests ==
    ToDispatcher =>
        IF HealthRequest THEN Len(calls) = 1 /\ calls[1].slot = "probe"
        ELSE IF request.method # "POST"
        THEN response = NotAllowed405(request) /\ calls = <<>>
        ELSE IF request.json = NoneBody
        THEN response.status \in {415, 400} /\ calls = <<>>
        ELSE IF request.path \in Registered[request.service]
        THEN response = HandlerOutcome.resp /\ calls = HandlerOutcome.calls
        ELSE response = NotFound404(request) /\ calls = <<>>

\* a GET on a registered path of logifresh was answered 405
C6_GetOnRegisteredPath ==
    /\ ToDispatcher
    /\ request.service = "logifresh"
    /\ request.method = "GET"
    /\ request.path = "/inventory/stock"
    /\ response.status = 405

\* a POST to a dispatcher whose body did not parse
UnparsedPost == ToDispatcher /\ request.method = "POST" /\ request.json = NoneBody

\* the Content-Type values that are 'application/json' up to case
JsonContentTypes == {"application/json", "Application/JSON"}

\* C7: a POST whose parsed body is None is answered before routing, on registered and
\* unregistered paths alike: 400 'Invalid JSON body received.' when the Content-Type is
\* 'application/json' up to case, 415 otherwise; no handler runs, no warehouse call is
\* made and no row is written.
C7_UnparsedBodyRejectedFirst ==
    UnparsedPost =>
        /\ calls = <<>>
        /\ uuids = 0
        /\ \A t \in DOMAIN tables : tables[t] = <<>>
        /\ response.raised = ""
        /\ response.body.status = "error"
        /\ IF request.contentType \in JsonContentTypes
           THEN /\ response.status = 400
                /\ response.body.message = Msg("Invalid JSON body received.", <<>>)
           ELSE /\ response.status = 415
                /\ response.body.message = Msg("Unsupported Media Type. Expected 'application/json'.", <<>>)

\* an unparsed POST with Content-Type 'Application/JSON' on an unregistered path got 400
C7_UnparsedOnUnknownPath ==
    /\ UnparsedPost
    /\ request.path = "/unknown"
    /\ request.contentType = "Application/JSON"
    /\ response.status = 400

\* C8: the health check GET / makes one probe query, answers 200 when the probe
\* succeeded and 500 when it failed, and writes no warehouse row.
C8_HealthCheckReportsProbe ==
    HealthRequest =>
        /\ Len(calls) = 1
        /\ calls[1].op = "query" /\ calls[1].slot = "probe"
        /\ response.raised = ""
        /\ response.status = (IF calls[1].exc = "" THEN 200 ELSE 500)
        /\ \A t \in DOMAIN tables : tables[t] = <<>>

\* a health check whose probe query failed was answered 500
C8_FailedProbe ==
    /\ HealthRequest
    /\ calls[1].exc # ""
    /\ response.status = 500

\* Another value of the same kind: a text stays a text (a date stays a date, a number text
\* a number text), a number stays a number of the same sign, and what is falsy stays falsy.
OtherScalar(v) ==
    CASE v.t = "str" /\ v.s = "" -> v
      [] v.t = "str" /\ v.s \in DOMAIN DateText -> JStr(IF v.s = "2025-01-15" THEN "2025-1-5" ELSE "2025-01-15")
      [] v.t = "str" /\ v.s \in DOMAIN TimestampText -> v
      [] v.t = "str" /\ v.s \in DOMAIN NumericText -> JStr(IF v.s = "12" THEN " 7 " ELSE IF v.s = " 7 " THEN "12" ELSE v.s)
      [] v.t = "str" -> JStr(v.s \o "' OR '1'='1")
      [] v.t \in {"int", "float"} /\ v.n > 0 -> [v EXCEPT !.n = @ + 1]
      [] OTHER -> v
OtherElement(v) ==
    IF v.t = "obj"
    THEN [v EXCEPT !.product_id = OtherScalar(@), !.quantity_kg = OtherScalar(@)]
    ELSE OtherScalar(v)
OtherValue(v) ==
    IF v.t = "list" THEN JList([i \in DOMAIN v.l |-> OtherElement(v.l[i])]) ELSE OtherScalar(v)

\* the request with the same fields and other values
OtherRequest ==
    IF request.json.kind = "object"
    THEN [request EXCEPT !.json.f = [k \in DOMAIN request.json.f |-> OtherValue(request.json.f[k])]]
    ELSE request

\* what the service does with a request under the environment answers of this behaviour
Rerun(req) ==
    CASE req.service = "agrioptimize" -> agrioptimize_backend_function(req, 0, env)
      [] req.service = "logifresh" -> logifresh_backend_function(req, 0, env)
      [] req.service = "marketflow" -> marketflow_backend_function(req, 0, env)
      [] req.service = "getoptimizedeliveryroute" -> standalone_handle_optimize_delivery_route(req, env)
      [] OTHER -> LookupRun(req, env)

\* the warehouse queries among the calls
Queries(cs) == SelectSeq(cs, LAMBDA c : c.op = "query")

\* C9: the SQL text of every query depends on which fields the request gives and on
\* their truth value only: the request with other values in the same fields sends the
\* same queries with the same SQL text and the same parameter names and types; the
\* values travel in the parameters.
C9_SqlTextIndependentOfValues ==
    Done =>
        LET mine == Queries(calls)
            other == Queries(Rerun(OtherRequest).calls)
        IN  /\ Len(other) = Len(mine)
            /\ \A i \in DOMAIN mine :
                   /\ other[i].slot = mine[i].slot
                   /\ other[i].sql = mine[i].sql
                   /\ Len(other[i].params) = Len(mine[i].params)
                   /\ \A j \in DOMAIN mine[i].params :
                          /\ other[i].params[j].name = mine[i].params[j].name
                          /\ other[i].params[j].type = mine[i].params[j].type

\* a stock request was served whose location, with another value, reaches the query as a
\* parameter of another value
C9_StockQueryWithOtherLocation ==
    /\ Done
    /\ request.service = "logifresh" /\ request.path = "/inventory/stock"
    /\ Len(calls) = 1
    /\ calls[1].params[1].value = request.json.f["location_id"]
    /\ Rerun(OtherRequest).calls[1].params[1].value # calls[1].params[1].value

\* C10: within one request no call is made twice: the warehouse queries, the inserts and
\* the geocoding and routing calls of a request are pairwise different calls (by kind and
\* by what they are for), whether they succeeded or failed.
C10_EachCallAtMostOnce ==
    Done =>
        \A i, j \in DOMAIN calls :
            (calls[i].op = calls[j].op /\ calls[i].slot = calls[j].slot) => i = j

\* the route optimizer's vehicle query failed and the request went on to the routing call
C10_FailedVehicleQueryNotRepeated ==
    /\ Done
    /\ request.service = "getoptimizedeliveryroute"
    /\ \E i \in DOMAIN calls : calls[i].slot = "vehicle" /\ calls[i].exc # ""
    /\ \E i \in DOMAIN calls : calls[i].op = "routes"

\* the request's first call was the query `slot`, and it succeeded without a row
FirstQueryEmpty(service, slot) ==
    /\ Done
    /\ request.service = service
    /\ calls # <<>>
    /\ calls[1].op = "query" /\ calls[1].slot = slot /\ calls[1].exc = ""

\* C11: a lookup that succeeds without a row is reported as not found and never as 500:
\* 200 with status "not_found" for the shipment of /shipment/status and the vehicle of
\* the simulated /route/optimize, 404 with an empty list of matches for the
\* vehicle-license lookup, 404 for the origin of the standalone route optimizer.
C11_NotFoundIs200Or404 ==
    /\ (FirstQueryEmpty("logifresh", "shipment") /\ env.os.rows = <<>>) =>
           /\ response.status = 200
           /\ response.body.status = "not_found"
           /\ Len(calls) = 1
    /\ (FirstQueryEmpty("logifresh", "vehicle") /\ env.ov.rows = <<>>) =>
           /\ response.status = 200
           /\ response.body.status = "not_found"
           /\ Len(calls) = 1
    /\ (FirstQueryEmpty("getvehicledetails", "license") /\ env.rows = <<>>) =>
           /\ response.status = 404
           /\ response.body.payload = [kind |-> "matches", matches |-> <<>>]
    /\ (FirstQueryEmpty("getoptimizedeliveryroute", "origin") /\ env.oo.rows = <<>>) =>
           /\ response.status = 404
           /\ response.body.status = "not_found"
           /\ Len(calls) = 1

\* the vehicle-license lookup found no row and answered 404 with no matches
C11_UnknownLicense ==
    /\ FirstQueryEmpty("getvehicledetails", "license")
    /\ env.rows = <<>>
    /\ response.status = 404

\* the table each write handler inserts its record into
WriteTarget ==
    [p \in {"/harvest", "/issue/farm", "/issue/coldchain", "/order"} |->
        CASE p = "/harvest" -> "harvest_records"
          [] p = "/issue/farm" -> "farm_qc_issues"
          [] p = "/issue/coldchain" -> "cold_chain_readings"
          [] OTHER -> "orders"]

WriteService ==
    [p \in DOMAIN WriteTarget |->
        CASE p = "/issue/coldchain" -> "logifresh" [] p = "/order" -> "marketflow" [] OTHER -> "agrioptimize"]

\* a POST to a write handler
IsWrite(req) == req.method = "POST" /\ req.path \in DOMAIN WriteTarget /\ req.service = WriteService[req.path]

\* e, an entry of `served`, is a write request answered 200
AcceptedWrite(e) == IsWrite(e.request) /\ e.response.status = 200

\* the number of rows table t gained while e was served
Added(e, t) == Len(e.after[t]) - Len(e.before[t])
TotalAdded(e) ==
    Added(e, "harvest_records") + Added(e, "farm_qc_issues") + Added(e, "cold_chain_readings")
    + Added(e, "orders") + Added(e, "order_items")

\* every row that was in the warehouse before e is still there, unchanged and in place
RowsKept(e) ==
    \A t \in WriteTables :
        /\ Len(e.after[t]) >= Len(e.before[t])
        /\ SubSeq(e.after[t], 1, Len(e.before[t])) = e.before[t]

\* the rows an accepted write request is due to add to table t
RowsDue(e, t) ==
    IF t = WriteTarget[e.request.path] THEN 1
    ELSE IF e.request.path = "/order" /\ t = "order_items" THEN Len(e.request.json.f["items"].l)
    ELSE 0

\* the query answered with at least one row
GotRows(o) == o.exc = "" /\ o.rows # <<>>

\* the answers to the queries /advice/harvest made for the request
AdviceAnswers ==
    <<env.oh, env.oq, env.os>> \o (IF Truthy(Get(request.json, "farm_id")) THEN <<env.of>> ELSE <<>>)

\* C13 as stated: /advice/harvest runs its three list queries, and the farm-profile query
\* when farm_id is given, whatever the earlier ones did; when at least one of them failed
\* the response is 200 "warning" if some query returned data rows and 500 "error" if none
\* did (as when every query failed).
C13_WarningOnlyWithData ==
    (/\ Done
     /\ request.service = "agrioptimize" /\ request.method = "POST"
     /\ request.path = "/advice/harvest" /\ request.json.kind = "object") =>
        /\ Len(calls) = Len(AdviceAnswers)
        /\ (\E i \in DOMAIN AdviceAnswers : AdviceAnswers[i].exc # "") =>
             IF \E i \in DOMAIN AdviceAnswers : GotRows(AdviceAnswers[i])
             THEN response.status = 200 /\ response.body.status = "warning"
             ELSE response.status = 500 /\ response.body.status = "error"

\* C15: a write request (/harvest, /issue/farm, /issue/coldchain, /order) answered 400 made
\* no insert: every check of presence, type and format, for /order of every item, is done
\* before the first insert, and the warehouse tables are as they were before the request.
C15_RejectedWritesInsertNothing ==
    (Done /\ IsWrite(request) /\ response.status = 400) =>
        /\ \A i \in DOMAIN calls : calls[i].op # "insert"
        /\ tables = [t \in WriteTables |-> <<>>]
        /\ \A i \in DOMAIN served : served[i].after = served[i].before

\* an order was rejected for its second item, after the ids of the order and of the first
\* item's row had been drawn
C15_OrderRejectedAtSecondItem ==
    /\ Done /\ IsWrite(request) /\ request.path = "/order"
    /\ response.status = 400
    /\ request.json.kind = "object"
    /\ Len(Accepted(request.json.f["items"].l)) = 1
    /\ uuids = 2
    /\ calls = <<>>

\* the insert calls among those the request made
InsertsMade == SelectSeq(calls, LAMBDA c : c.op = "insert")

\* C16: a /order request that passed its checks attempts the orders insert and then the
\* order_items insert, the second whatever the first did; the response is 200 "success"
\* exactly when both succeeded and 500 otherwise; and nothing is rolled back: each table
\* holds the rows of its own insert when that insert succeeded and nothing otherwise.
C16_BothInsertsAttemptedNoRollback ==
    (/\ Done /\ IsWrite(request) /\ request.path = "/order"
     /\ response.raised = "" /\ response.status # 400 /\ calls # <<>>) =>
        /\ Len(InsertsMade) = 2
        /\ InsertsMade[1].slot = "orders" /\ InsertsMade[2].slot = "order_items"
        /\ (response.status = 200 /\ response.body.status = "success")
             <=> (InsertsMade[1].exc = "" /\ InsertsMade[2].exc = "")
        /\ response.status \in {200, 500}
        /\ tables["orders"] = (IF InsertsMade[1].exc = "" THEN InsertsMade[1].rows ELSE <<>>)
        /\ tables["order_items"] = (IF InsertsMade[2].exc = "" THEN InsertsMade[2].rows ELSE <<>>)

\* after a 500 the warehouse holds order_items rows whose order has no orders row
C16_ItemsWithoutOrder ==
    /\ Done /\ IsWrite(request) /\ request.path = "/order"
    /\ response.status = 500
    /\ tables["orders"] = <<>>
    /\ tables["order_items"] # <<>>
    /\ InsertsMade[1].exc # "" /\ InsertsMade[2].exc = ""

\* the line totals of the item rows, added up
RECURSIVE LineTotals(_)
LineTotals(rows) == IF rows = <<>> THEN 0 ELSE Head(rows).line_item_total + LineTotals(Tail(rows))

\* C17: a /order request of n items that passed its checks built one orders row and n
\* order_items rows, the i-th for the i-th item; every item row carries the order_id of
\* the orders row, an id drawn for this request and shared with no item row's own id, a
\* quantity above 0 and line_item_total = ordered_quantity_kg * price_per_kg_at_order; and
\* the orders row's total_amount is the sum of the line totals (amounts are in cents).
C17_OrderRowsAndTotals ==
    (Done /\ IsWrite(request) /\ request.path = "/order" /\ Len(InsertsMade) = 2) =>
        LET items == request.json.f["items"].l
            order == InsertsMade[1].rows
            rows == InsertsMade[2].rows
        IN  /\ Len(order) = 1
            /\ Len(rows) = Len(items)
            /\ order[1].order_id \in 1..uuids
            /\ \A i \in DOMAIN rows :
                 /\ rows[i].order_id = order[1].order_id
                 /\ rows[i].order_item_id \in 1..uuids
                 /\ rows[i].order_item_id # order[1].order_id
                 /\ \A j \in DOMAIN rows : rows[i].order_item_id = rows[j].order_item_id => i = j
                 /\ rows[i].product_id = items[i].product_id
                 /\ rows[i].ordered_quantity_kg = PyInt(items[i].quantity_kg).v.n
                 /\ rows[i].ordered_quantity_kg > 0
                 /\ rows[i].price_per_kg_at_order = env.prices[i]
                 /\ rows[i].line_item_total = rows[i].ordered_quantity_kg * rows[i].price_per_kg_at_order
            /\ order[1].total_amount = LineTotals(rows)
            /\ response.status = 200 =>
                 /\ response.body.payload.order_id = order[1].order_id
                 /\ response.body.payload.total_amount = order[1].total_amount

\* an order of two items at different prices was accepted
C17_TwoItemsTwoPrices ==
    /\ Done /\ IsWrite(request) /\ request.path = "/order"
    /\ response.status = 200
    /\ Len(InsertsMade) = 2
    /\ Len(InsertsMade[2].rows) = 2
    /\ InsertsMade[2].rows[1].price_per_kg_at_order # InsertsMade[2].rows[2].price_per_kg_at_order
    /\ tables["order_items"] = InsertsMade[2].rows

\* a /schedule/pickup request with its four fields, a date and a quantity that parse
ValidPickup ==
    /\ Done /\ CompletePost("agrioptimize", "/schedule/pickup",
                            <<"farm_id", "product_id", "quantity_kg", "requested_date">>)
    /\ PyDateIso(request.json.f["requested_date"]).ok
    /\ PyInt(request.json.f["quantity_kg"]).ok

\* the kilograms the availability query reported: its SUM, 0 when that is NULL or no row came
Available ==
    IF env.oa.exc = "" /\ env.oa.rows # <<>> /\ env.oa.rows[1].total_harvested # Null
    THEN env.oa.rows[1].total_harvested.n ELSE 0

\* C18: a valid /schedule/pickup request makes one query, the sum of harvested_quantity_kg
\* over the farm's harvest records of the product dated on or after the requested date
\* minus 7 days; when the query fails the response is 500, otherwise it is 200, "success"
\* with confirmed_quantity_kg the requested quantity exactly when the sum (0 when NULL) is
\* at least the requested quantity, and "unavailable" otherwise.
C18_PickupVerdict ==
    ValidPickup =>
        LET data == request.json
            requested == PyInt(data.f["quantity_kg"]).v.n
        IN  /\ Len(calls) = 1
            /\ calls[1].op = "query"
            /\ calls[1].sql.table = "harvest_records"
            /\ calls[1].sql.select = "SUM(harvested_quantity_kg) as total_harvested"
            /\ calls[1].sql.where = <<"farm_id = @farm_id", "product_id = @product_id",
                                      "harvest_date >= DATE_SUB(@requested_date, INTERVAL 7 DAY)">>
            /\ calls[1].params = <<Param("farm_id", "STRING", data.f["farm_id"]),
                                   Param("product_id", "STRING", data.f["product_id"]),
                                   Param("requested_date", "DATE", PyDateIso(data.f["requested_date"]).v)>>
            /\ IF env.oa.exc # "" THEN response.status = 500
               ELSE /\ response.status = 200
                    /\ response.body.status \in {"success", "unavailable"}
                    /\ response.body.status = "success" <=> Available >= requested
                    /\ response.body.status = "success" =>
                         response.body.payload.confirmed_quantity_kg = requested

\* exactly the requested 5 kg were available and the pickup was confirmed
C18_ExactlyEnough ==
    /\ ValidPickup
    /\ env.oa.exc = ""
    /\ Available = 5
    /\ PyInt(request.json.f["quantity_kg"]).v.n = 5
    /\ response.status = 200 /\ response.body.status = "success"
    /\ response.body.payload.confirmed_quantity_kg = 5

(***************************************************************************)
(* Properties of processes from their start (SpecStart).                   *)
(***************************************************************************)
\* C14: each process holds one warehouse client, created when the module is imported and
\* so before the process takes its first request; a process whose client could not be
\* created exits and serves nothing, so no handler runs with an uninitialized client, and
\* every request of a process ran with the very client the process holds now.
C14_ClientCreatedAtImport ==
    /\ \A s \in Services :
         /\ process[s].state = "serving" => process[s].bigquery_client = "Client"
         /\ process[s].state # "serving" => process[s].bigquery_client = "None"
    /\ \A i \in DOMAIN served :
         /\ served[i].client = "Client"
         /\ served[i].client = process[served[i].request.service].bigquery_client

\* C14 as stated: the client is initialized lazily, on the first request that needs it and
\* not before.
C14_ClientCreatedByFirstRequest ==
    \A s \in Services :
        process[s].bigquery_client = "Client" =>
            \E i \in DOMAIN served : served[i].request.service = s

\* agrioptimize served two requests with its client while logifresh failed to start
C14_TwoRequestsOneClient ==
    /\ process["logifresh"].state = "exited"
    /\ \E i, j \in DOMAIN served :
         /\ i < j
         /\ served[i].request.service = "agrioptimize" /\ served[j].request.service = "agrioptimize"
         /\ served[i].client = "Client" /\ served[j].client = "Client"

(***************************************************************************)
(* Properties of requests served one after another (SpecSeq).              *)
(***************************************************************************)
\* C12: no request updates or deletes a row of the warehouse (the rows there before it are
\* there after it, unchanged), and an accepted write request adds exactly one row to its
\* handler's table with one insert: /harvest, /issue/farm and /issue/coldchain add nothing
\* else, and /order adds besides its orders row one order_items row per item, with a
\* second insert.
C12_AcceptedWritesAddRows ==
    \A i \in DOMAIN served :
        LET e == served[i]
            inserts == SelectSeq(e.calls, LAMBDA c : c.op = "insert")
        IN  /\ RowsKept(e)
            /\ \A k \in DOMAIN e.calls : e.calls[k].op \in {"insert", "query"}
            /\ AcceptedWrite(e) =>
                 /\ \A t \in WriteTables : Added(e, t) = RowsDue(e, t)
                 /\ Len(inserts) = (IF e.request.path = "/order" THEN 2 ELSE 1)
                 /\ e.request.path # "/order" => Len(inserts[1].rows) = 1

\* C12 as stated: every accepted write request adds exactly one row to the warehouse.
C12_ExactlyOneRowPerAccepted ==
    \A i \in DOMAIN served : AcceptedWrite(served[i]) => TotalAdded(served[i]) = 1

\* an order of two items is accepted after an earlier order left its rows in the warehouse
C12_SecondOrderAccepted ==
    \E i \in DOMAIN served :
        /\ AcceptedWrite(served[i]) /\ served[i].request.path = "/order"
        /\ served[i].before["orders"] # <<>> /\ served[i].before["order_items"] # <<>>
        /\ Added(served[i], "order_items") = 2 /\ Added(served[i], "orders") = 1

\* e, an entry of `served`, is a pickup request: /schedule/pickup of agrioptimize or the
\* pickup request logifresh receives
IsPickup(e) ==
    /\ e.request.method = "POST"
    /\ \/ e.request.service = "agrioptimize" /\ e.request.path = "/schedule/pickup"
       \/ e.request.service = "logifresh" /\ e.request.path = "/logistics/schedule-pickup-request"

\* the verdict of a pickup request: the status, and the quantity confirmed if any
Verdict(e) ==
    <<e.response.status, e.response.body.status,
      IF e.response.body.status = "success" THEN e.response.body.payload.confirmed_quantity_kg ELSE 0>>

\* the kilograms confirmed by the pickup requests served so far
RECURSIVE ConfirmedKg(_)
ConfirmedKg(es) ==
    IF es = <<>> THEN 0
    ELSE (IF IsPickup(Head(es)) /\ Head(es).response.status = 200
             /\ Head(es).response.body.status = "success"
          THEN Head(es).response.body.payload.confirmed_quantity_kg ELSE 0) + ConfirmedKg(Tail(es))

\* C19: a pickup request makes no insert and leaves every table as it found it, so two
\* /schedule/pickup requests with the same body whose availability queries succeeded against
\* the same harvest records get the same verdict, however many pickups were confirmed in
\* between.
C19_PickupsLeaveAvailability ==
    \A i \in DOMAIN served :
        IsPickup(served[i]) =>
            /\ served[i].after = served[i].before
            /\ \A k \in DOMAIN served[i].calls : served[i].calls[k].op = "query"
            /\ \A j \in DOMAIN served :
                 (/\ i < j /\ IsPickup(served[j])
                  /\ served[j].request = served[i].request
                  /\ served[j].before["harvest_records"] = served[i].before["harvest_records"]
                  /\ \A k \in DOMAIN served[i].calls : served[i].calls[k].exc = ""
                  /\ \A k \in DOMAIN served[j].calls : served[j].calls[k].exc = "")
                    => Verdict(served[j]) = Verdict(served[i])

\* 5 kg were harvested and pickups of 10 kg in all were confirmed
C19_ConfirmedMoreThanHarvested ==
    /\ Len(tables["harvest_records"]) = 1
    /\ SumKg(tables["harvest_records"]) = 5
    /\ ConfirmedKg(served) = 10

\* the identifier of a row of table t
IdOf(t, row) ==
    CASE t = "harvest_records" -> row.harvest_id
      [] t = "farm_qc_issues" -> row.issue_id
      [] t = "cold_chain_readings" -> row.reading_id
      [] t = "orders" -> row.order_id
      [] OTHER -> row.order_item_id

\* the identifier a 200 response of a write handler returns
ReturnedId(e) ==
    IF e.request.path = "/order" THEN e.response.body.payload.order_id ELSE e.response.body.payload.id

\* C20: an accepted write request adds to its handler's table one row whose id is the id
\* its 200 response returns and is the id of no row that was there before; so the ids of
\* a table's rows are pairwise distinct, two accepted requests to one handler return
\* different ids even when the requests are identical, and the row of every accepted
\* request is in the table: k accepted repetitions leave k rows.
C20_FreshIdPerAcceptedWrite ==
    /\ \A t \in WriteTables :
         \A k, l \in DOMAIN tables[t] : IdOf(t, tables[t][k]) = IdOf(t, tables[t][l]) => k = l
    /\ \A i \in DOMAIN served :
         AcceptedWrite(served[i]) =>
            LET e == served[i]
                t == WriteTarget[e.request.path]
            IN  /\ Added(e, t) = 1
                /\ IdOf(t, e.after[t][Len(e.after[t])]) = ReturnedId(e)
                /\ \A k \in DOMAIN e.before[t] : IdOf(t, e.before[t][k]) # ReturnedId(e)
                /\ \E k \in DOMAIN tables[t] : IdOf(t, tables[t][k]) = ReturnedId(e)
                /\ \A j \in DOMAIN served :
                     (j # i /\ AcceptedWrite(served[j]) /\ served[j].request.path = e.request.path)
                        => ReturnedId(served[j]) # ReturnedId(e)

\* the same /harvest request was accepted three times and left three rows
C20_SameHarvestThreeTimes ==
    /\ Len(served) = 3
    /\ \A i \in 1..3 : AcceptedWrite(served[i]) /\ served[i].request = served[1].request
    /\ served[1].request.path = "/harvest"
    /\ Len(tables["harvest_records"]) = 3
    /\ Cardinality({tables["harvest_records"][k].harvest_id : k \in 1..3}) = 3

(***************************************************************************)
(* Further properties of single requests (Spec).                           *)
(***************************************************************************)
\* a POST to /shipment/status of logifresh whose shipment query found a row
ShipmentFound ==
    /\ Done
    /\ request.service = "logifresh" /\ request.method = "POST" /\ request.path = "/shipment/status"
    /\ calls # <<>>
    /\ env.os.exc = "" /\ env.os.rows # <<>>

\* C21 as stated: /shipment/status issues the cold-chain readings query only after the
\* shipment row was found and only if the row has requires_cold_chain true; when that
\* query fails the response is 200 "warning" with the shipment found, an empty list of
\* readings and details that contain the error text of the failed readings query.
C21_FailedReadingsReported ==
    (/\ Done
     /\ request.service = "logifresh" /\ request.method = "POST" /\ request.path = "/shipment/status") =>
        /\ (\E i \in DOMAIN calls : calls[i].slot = "cold_chain") =>
              /\ ShipmentFound
              /\ env.os.rows[1].requires_cold_chain = JBool(TRUE)
              /\ Len(calls) = 2 /\ calls[1].slot = "shipment" /\ calls[2].slot = "cold_chain"
        /\ (ShipmentFound /\ Len(calls) = 2 /\ calls[2].exc # "") =>
              /\ response.status = 200
              /\ response.body.status = "warning"
              /\ response.body.payload.shipment_details = env.os.rows[1]
              /\ response.body.payload.recent_cold_chain_readings = <<>>
              /\ \E j \in DOMAIN response.body.details :
                    response.body.details[j].err = HelperErr(calls[2])

\* a /issue/coldchain request answered 200
ColdChainAccepted ==
    /\ Done
    /\ request.service = "logifresh" /\ request.method = "POST" /\ request.path = "/issue/coldchain"
    /\ response.status = 200

\* C22: an accepted /issue/coldchain request has status "success" and a message that the
\* temperature t (in tenths of a degree) decides: above 15 the critical message, above 8
\* and up to 15 the success message with the warning, up to 8 the plain success message;
\* and whatever t is, one reading row with that temperature was inserted.
C22_MessageByTemperature ==
    ColdChainAccepted =>
        LET t == PyFloat(request.json.f["temperature_celsius"]).v
        IN  /\ response.body.status = "success"
            /\ response.body.message.text =
                 (IF t.n > 150 THEN "Critical: High temperature excursion reported."
                  ELSE IF t.n > 80
                  THEN "Cold chain reading reported successfully." \o " Warning: Temperature is elevated."
                  ELSE "Cold chain reading reported successfully.")
            /\ Len(tables["cold_chain_readings"]) = 1
            /\ tables["cold_chain_readings"][1].temperature_celsius = t
            /\ tables["cold_chain_readings"][1].reading_id = response.body.payload.id
            /\ Len(InsertsMade) = 1 /\ Len(InsertsMade[1].rows) = 1

\* a reading of exactly 8 degrees was accepted with the plain message
C22_ExactlyEightDegrees ==
    /\ ColdChainAccepted
    /\ PyFloat(request.json.f["temperature_celsius"]).v.n = 80
    /\ response.body.message.text = "Cold chain reading reported successfully."
    /\ Len(tables["cold_chain_readings"]) = 1

\* a POST to the simulated /route/optimize of logifresh whose vehicle query found the vehicle
RouteVehicleFound ==
    /\ Done
    /\ request.service = "logifresh" /\ request.method = "POST" /\ request.path = "/route/optimize"
    /\ calls # <<>>
    /\ env.ov.exc = "" /\ env.ov.rows # <<>>

\* the customer rows the customer query of the request gave back (none when it failed)
CustomersFound == IF env.oc.exc = "" THEN env.oc.rows ELSE <<>>

\* C23: a successful simulated /route/optimize has one stop for every customer row found
\* and no other stop (each found customer exactly once, with its address), stop_number i
\* at position i from 1 to n, num_stops = n, and arrival times that strictly increase with
\* the stop number; and when the vehicle was found but no customer row was, because none
\* matched or because the customer query failed, the response is 200 "unavailable".
C23_StopsArePermutationOfCustomers ==
    RouteVehicleFound =>
        IF CustomersFound = <<>>
        THEN response.status = 200 /\ response.body.status = "unavailable"
        ELSE LET stops == response.body.payload.route_stops
                 n == Len(CustomersFound)
             IN  /\ response.status = 200 /\ response.body.status = "success"
                 /\ Len(stops) = n
                 /\ response.body.payload.num_stops = n
                 /\ \A i \in 1..n : stops[i].stop_number = i
                 /\ \A k \in 1..n :
                      Cardinality({i \in 1..n :
                                     /\ stops[i].destination_id = CustomersFound[k].customer_id
                                     /\ stops[i].destination_address = CustomersFound[k].shipping_address}) = 1
                 /\ \A i \in 1..n :
                      \E k \in 1..Len(request.json.f["destination_locations"].l) :
                         request.json.f["destination_locations"].l[k] = stops[i].destination_id
                 /\ \A i, j \in 1..n :
                      i < j => stops[i].estimated_arrival_minutes < stops[j].estimated_arrival_minutes

\* two customers were found and the route visits them in the other order
C23_TwoStopsShuffled ==
    /\ RouteVehicleFound
    /\ Len(CustomersFound) = 2
    /\ response.body.status = "success"
    /\ response.body.payload.route_stops[1].destination_id = CustomersFound[2].customer_id
    /\ response.body.payload.route_stops[2].destination_id = CustomersFound[1].customer_id

\* a simulated /route/optimize answered with a route
RouteSucceeded == RouteVehicleFound /\ response.status = 200 /\ response.body.status = "success"

\* C24 as stated: in a simulated route of n stops with d minutes per stop,
\* estimated_total_duration_minutes is n * d and is the number of minutes from the start of
\* the simulation to the estimated arrival at the last stop.
C24_TotalIsArrivalAtLastStop ==
    RouteSucceeded =>
        LET stops == response.body.payload.route_stops
            n == Len(stops)
        IN  /\ response.body.payload.estimated_total_duration_minutes = n * env.rnd.per_stop
            /\ response.body.payload.estimated_total_duration_minutes = stops[n].estimated_arrival_minutes

(***************************************************************************)
(* The lookup functions                                                    *)
(***************************************************************************)
NameLookups == {"getcustomerdetails", "getfirmdetails", "getproduct"}
NameField ==
    [getcustomerdetails |-> "customer_name_query", getfirmdetails |-> "farm_name", getproduct |-> "product_name"]
NameLookupDone == Done /\ request.service \in NameLookups

\* the value a name lookup searches for: none when the body has no such field
NameGiven ==
    IF request.json.kind = "object" /\ NameField[request.service] \in DOMAIN request.json.f
    THEN request.json.f[NameField[request.service]] ELSE Null

\* the lookup made its query and the query did not raise
NameQueryAnswered == NameLookupDone /\ Len(calls) = 1 /\ calls[1].exc = ""

\* the part of C25 about the status and the choice of the query
NameLookupAnswers ==
    NameLookupDone =>
        /\ Len(calls) <= 1
        /\ NameQueryAnswered =>
              /\ response.status = 200
              /\ response.body.payload.kind = "matches"
              /\ response.body.payload.matches = env.rows
        /\ (calls # <<>> /\ NameGiven \in {Absent, Null, JStr("")}) =>
              /\ calls[1].sql.where = <<>>
              /\ calls[1].params = <<>>

\* C25 as stated: a name lookup (customer, farm, product) answers 200 with a matches list
\* whenever its query succeeds, even with zero matches; without a query value (missing,
\* empty or absent) it makes the unfiltered listing; and both the listing and the name
\* search are cut at 100 rows.  The warehouse returns as many rows as match unless the
\* query carries a LIMIT, so the bound is the query's LIMIT 100.
C25_NameLookupsBounded ==
    /\ NameLookupAnswers
    /\ (NameLookupDone /\ calls # <<>>) => calls[1].sql.rest = "LIMIT 100"

LicenseLookupDone == Done /\ request.service = "getvehicledetails"

\* the request names a license: a JSON object with a non-empty vehicle_license_no
LicenseGiven ==
    /\ request.json.kind = "object"
    /\ "vehicle_license_no" \in DOMAIN request.json.f
    /\ request.json.f["vehicle_license_no"] \notin {Absent, Null, JStr("")}

\* the vehicles of the warehouse that have the requested license
Licensed == LicenseMatches(env.vehicles, request.json.f["vehicle_license_no"])

\* the outcomes of a request that names a license
LicenseLookupAnswers ==
    (LicenseLookupDone /\ LicenseGiven) =>
        /\ Len(calls) = 1
        /\ calls[1].sql.rest = "LIMIT 1"
        /\ calls[1].exc # "" => response.status = 500
        /\ (calls[1].exc = "" /\ Licensed = <<>>) =>
              /\ response.status = 404
              /\ response.body.payload = [kind |-> "matches", matches |-> <<>>]
        /\ (calls[1].exc = "" /\ Licensed # <<>>) =>
              /\ response.status = 200
              /\ response.body.payload.kind = "matches"
              /\ Len(response.body.payload.matches) = 1
              /\ response.body.payload.matches[1].vehicle_license_no = request.json.f["vehicle_license_no"]
              /\ \E i \in 1..Len(Licensed) : response.body.payload.matches[1] = Licensed[i]

\* C26 as stated: the vehicle-license lookup has exactly four outcomes: 400 without a
\* query when vehicle_license_no is missing or empty, 500 when the query raises, 404 with
\* no matches when no vehicle has the license, and 200 with exactly one vehicle that has
\* the requested license, even when several vehicles share it.
C26_FourOutcomes ==
    /\ LicenseLookupAnswers
    /\ LicenseLookupDone =>
          /\ response.raised = ""
          /\ response.status \in {200, 400, 404, 500}
    /\ (LicenseLookupDone /\ ~LicenseGiven) =>
          /\ response.status = 400
          /\ calls = <<>>

\* the same for the requests whose body is not a JSON number or array
LicenseLookupOfObject ==
    (LicenseLookupDone /\ request.json.kind \in {"object", "none"}) => C26_FourOutcomes

(***************************************************************************)
(* The standalone route optimizer                                          *)
(***************************************************************************)
OptimizerDone == Done /\ request.service = "getoptimizedeliveryroute"
OptimizerPost == OptimizerDone /\ request.method = "POST"

\* a field of the request's body: None when the body has no such field
Sent(k) == IF request.json.kind = "object" /\ k \in DOMAIN request.json.f THEN request.json.f[k] ELSE Null

\* the request fails the input validation
OptimizerInputMissing ==
    \/ Sent("origin_location_id") \in {Absent, Null, JStr("")}
    \/ Sent("destination_order_ids") \in {Absent, Null, JStr(""), JList(<<>>)}
    \/ Sent("destination_order_ids").t # "list"

\* the positions in the log of the calls made in a stage, and of those that succeeded
CallsOf(slots) == {i \in 1..Len(calls) : calls[i].slot \in slots}
Answered(slots) == {i \in CallsOf(slots) : calls[i].exc = ""}
OrderSlots == {GeocodeSlot(i) : i \in 1..MaxOrders}

OriginLookedUp == Answered({"origin"}) # {}
OriginResolved == Answered({"geocode_origin"}) # {}
SomeDestinationLocated == Answered(OrderSlots) # {}

\* the steps of C27 for the requests that pass the input validation
OptimizerStepsInOrder ==
    (OptimizerPost /\ ~OptimizerInputMissing) =>
        /\ calls # <<>> /\ calls[1].slot = "origin"
        /\ (OriginLookedUp /\ ~OriginResolved) =>
              /\ response.status = 404
              /\ response.body.status = "not_found"
              /\ CallsOf({"destinations", "vehicle", "routes"} \cup OrderSlots) = {}
        /\ (OriginResolved /\ ~SomeDestinationLocated) =>
              /\ response.status = 200
              /\ response.body.status = "unavailable"
              /\ CallsOf({"vehicle", "routes"}) = {}
        /\ (OriginResolved /\ SomeDestinationLocated) =>
              /\ Cardinality(CallsOf({"routes"})) = 1
              /\ calls[Len(calls)].slot = "routes"
              /\ calls[Len(calls)].exc # "" =>
                    /\ response.status = 500
                    /\ response.body.status = "error"
              /\ (calls[Len(calls)].exc = "" /\ env.routes.routes = 0) =>
                    /\ response.status = 200
                    /\ response.body.status = "unavailable"
        /\ CallsOf({"routes"}) # {} => (OriginResolved /\ SomeDestinationLocated)
        /\ \A i \in CallsOf({"vehicle"}) : \E j \in CallsOf({"routes"}) : i < j

\* C27 as stated: the standalone route optimizer goes through its steps in a fixed order
\* and stops at the first that fails: a method other than POST gives 405; a missing
\* origin_location_id or destination_order_ids (or one that is no list) gives 400; an
\* origin that cannot be resolved gives 404; no destination with coordinates gives 200
\* "unavailable"; a failed call of the routing API gives 500; an empty list of routes
\* gives 200 "unavailable".  The routing API is called at most once, only after the origin
\* was resolved and a destination got coordinates, and a failed vehicle lookup does not
\* prevent the call.
C27_StepsInOrder ==
    /\ (OptimizerDone /\ request.method # "POST") =>
          /\ response.status = 405
          /\ calls = <<>>
    /\ (OptimizerPost /\ OptimizerInputMissing) =>
          /\ response.status = 400
          /\ calls = <<>>
    /\ OptimizerDone => Cardinality(CallsOf({"routes"})) <= 1
    /\ OptimizerStepsInOrder

\* the same for the requests whose body is a JSON object
OptimizerStepsOfObject == (OptimizerDone /\ request.json.kind = "object") => C27_StepsInOrder

RouteComputed == OptimizerPost /\ response.status = 200 /\ response.body.status = "success"

\* the rows of the destinations query that got coordinates, by their position in the
\* query's answer, and the k-th of them
LocatedRows ==
    {i \in 1..Len(env.od.rows) : \E j \in 1..Len(calls) : calls[j].slot = GeocodeSlot(i) /\ calls[j].exc = ""}
LocatedRow(k) == CHOOSE i \in LocatedRows : Cardinality({j \in LocatedRows : j < i}) = k - 1

\* the stops of the response are the origin and then the first n located destinations
StopsAreFirstLocated(n) ==
    LET stops == response.body.payload.route_stops
    IN  /\ Len(stops) = n + 1
        /\ stops[1].stop_number = 0
        /\ stops[1].id = request.json.f["origin_location_id"]
        /\ \A k \in 1..n :
              /\ stops[k + 1].stop_number = k
              /\ stops[k + 1].id = env.od.rows[LocatedRow(k)].order_id

\* C28 as stated: in a successful response of the standalone route optimizer route_stops
\* starts with the origin as stop 0, the stop numbers are consecutive, the k-th later stop
\* is the k-th destination passed to the routing API (the destinations with coordinates,
\* in query order), there is one stop per destination passed to the routing API, and
\* num_stops_on_route is the number of entries of route_stops.
C28_OneStopPerDestination ==
    RouteComputed =>
        /\ StopsAreFirstLocated(Cardinality(LocatedRows))
        /\ calls[Len(calls)].params = <<JInt(Cardinality(LocatedRows))>>
        /\ response.body.payload.num_stops_on_route = Len(response.body.payload.route_stops)

\* what the response holds whatever the number of legs the routing API returned
RouteStopsFollowLegs ==
    RouteComputed =>
        /\ calls[Len(calls)].slot = "routes"
        /\ calls[Len(calls)].params = <<JInt(Cardinality(LocatedRows))>>
        /\ StopsAreFirstLocated(Min(Len(env.routes.legs), Cardinality(LocatedRows)))
        /\ response.body.payload.num_stops_on_route = Len(env.routes.legs) + 1
        /\ Len(env.routes.legs) = Cardinality(LocatedRows) => C28_OneStopPerDestination

(***************************************************************************)
(* reportcoldchainissue: the cold-chain alerter, triggered by Pub/Sub.     *)
(* It has no warehouse client and answers nothing: what it does is what it *)
(* prints.  The data of a message is a text in three layers: base64 of     *)
(* bytes, bytes that are UTF-8 of a text, a text that is JSON of a value.  *)
(***************************************************************************)
\* a text and the value json.loads gives for it, if it is JSON
JsonText(value) == [json |-> TRUE, value |-> value]
PlainText == [json |-> FALSE, value |-> NoneBody]

\* bytes and the text they are the UTF-8 encoding of, if any
Utf8(text) == [utf8 |-> TRUE, text |-> text]
OtherBytes == [utf8 |-> FALSE, text |-> PlainText]

\* the data field of a Pub/Sub message: the base64 encoding of bytes, that encoding with
\* characters outside the alphabet ("!!!!", which b64decode discards), a text without
\* its padding ("abc")
Base64(bytes) == [t |-> "str", s |-> "", n |-> 0, l |-> <<>>, b64 |-> "valid", bytes |-> bytes]
StrayBase64 == [t |-> "str", s |-> "", n |-> 0, l |-> <<>>, b64 |-> "stray", bytes |-> Utf8(PlainText)]
UnpaddedBase64 == [t |-> "str", s |-> "", n |-> 0, l |-> <<>>, b64 |-> "padding", bytes |-> OtherBytes]

\* base64.b64decode(s): TypeError for None, binascii.Error for incorrect padding
b64decode(s) ==
    IF s.t # "str" THEN Raises("TypeError")
    ELSE IF s.b64 = "padding" THEN Raises("binascii.Error")
    ELSE [ok |-> TRUE, v |-> s.bytes, exc |-> ""]

\* bytes.decode('utf-8')
decode_utf8(bytes) ==
    IF bytes.utf8 THEN [ok |-> TRUE, v |-> bytes.text, exc |-> ""] ELSE Raises("UnicodeDecodeError")

\* json.loads(text)
json_loads(text) ==
    IF text.json THEN [ok |-> TRUE, v |-> text.value, exc |-> ""] ELSE Raises("JSONDecodeError")

\* one print: the stream, the line, the values formatted into it
Printed(stream, line, args) == [stream |-> stream, line |-> line, args |-> args]

\* what the function did: the lines it printed and the exception it raised, if any
Returned(printed) == [raised |-> "", printed |-> printed]
Raised(exc, printed) == [raised |-> exc, printed |-> printed]

\* the alert of a decoded message (lines 74-92)
alert_lines(alert_data) ==
    LET severity == GetOr(alert_data, "severity", JStr("Unknown"))
        shipment_id == GetOr(alert_data, "shipment_id", JStr("Unknown Shipment"))
        temperature == GetOr(alert_data, "temperature", JStr("N/A"))
        message == GetOr(alert_data, "message", JStr("No message"))
    IN  IF severity = JStr("Critical")
        THEN <<Printed("stderr", "--- !!! CRITICAL ALERT !!! ---", <<>>),
               Printed("stderr", "Shipment: HIGH TEMP", <<shipment_id, temperature, message>>)>>
        ELSE IF severity = JStr("Warning")
        THEN <<Printed("stdout", "--- Warning Alert ---", <<>>),
               Printed("stdout", "Shipment: Elevated Temp", <<shipment_id, temperature, message>>)>>
        ELSE <<Printed("stdout", "Info Alert", <<shipment_id, temperature, message>>)>>

\* the try block of lines 66-101, given the bytes of the message
process_message_data(message_data_bytes) ==
    LET message_data_string == decode_utf8(message_data_bytes)
        alert_data == json_loads(message_data_string.v)
    IN  IF ~message_data_string.ok
        THEN <<Printed("stderr", "Error processing message data", <<JStr(message_data_string.exc)>>)>>
        ELSE IF ~alert_data.ok
        THEN <<Printed("stdout", "Decoded Pub/Sub message data (Plain Text)", <<>>)>>
        ELSE IF alert_data.v.kind # "object"
        THEN <<Printed("stdout", "Decoded Pub/Sub message data (JSON)", <<>>),
               Printed("stderr", "Error processing message data", <<JStr("AttributeError")>>)>>
        ELSE <<Printed("stdout", "Decoded Pub/Sub message data (JSON)", <<>>)>> \o alert_lines(alert_data.v)

cold_chain_alerter_function(cloud_event) ==
    LET event_data == cloud_event.data
        pubsub_message == event_data.message
        attributes == event_data.attributes
        processing == <<Printed("stdout", "Processing Pub/Sub message...", <<>>)>>
                      \o (IF NotData(attributes) THEN <<>> ELSE <<Printed("stdout", "Attributes", <<>>)>>)
        started == processing
                   \o (IF NotData(attributes) THEN <<>> ELSE <<Printed("stdout", "Message ID, Published", <<>>)>>)
        message_data_bytes == b64decode(pubsub_message.f["data"])
    IN  IF event_data.kind # "dict"
        THEN Returned(<<Printed("stderr", "Received unexpected event data format (not dict)", <<>>)>>)
        ELSE IF NotData(pubsub_message)
        THEN Returned(<<Printed("stderr", "Received CloudEvent without expected 'message' field in data.", <<>>)>>
                      \o (IF NotData(attributes) THEN <<>> ELSE <<Printed("stdout", "Event attributes", <<>>)>>))
        ELSE IF ~NotData(attributes) /\ attributes.kind # "object"
        THEN Raised("AttributeError", processing)
        ELSE IF InRaises(pubsub_message) THEN Raised("TypeError", started)
        ELSE IF ~In(pubsub_message, "data")
        THEN Returned(started \o <<Printed("stdout", "Pub/Sub message has no 'data' field in payload.", <<>>)>>)
        ELSE IF pubsub_message.kind # "object" THEN Raised("TypeError", started)
        ELSE IF ~message_data_bytes.ok THEN Raised(message_data_bytes.exc, started)
        ELSE Returned(started \o process_message_data(message_data_bytes.v))

\* the alerts the publisher sends, and other JSON objects
Severities == {Absent, Null, JStr("Critical"), JStr("Warning"), JStr("Info"), JStr("critical")}
AlertObjects ==
    {ObjBody(f) : f \in [severity : Severities, shipment_id : {Absent, JStr("S1")},
                         temperature : {Absent, JFloat(160)}, message : {Absent, JStr("Door open")}]}

\* the values of the data field of a message
MessageDatas ==
    {Base64(Utf8(JsonText(v))) : v \in AlertObjects \cup {ArrBody({}), NumBody(5), NoneBody}}
    \cup {Base64(Utf8(PlainText)), Base64(OtherBytes), StrayBase64, UnpaddedBase64, Null}

\* a message of Pub/Sub, and what else the field may hold
PubsubMessage(data) == ObjBody([data |-> data, messageId |-> JStr("m1")])
Messages ==
    {PubsubMessage(d) : d \in MessageDatas \cup {Absent}}
    \cup {NoneBody, ObjBody([data |-> Absent, messageId |-> Absent]), ArrBody({"data"}), ArrBody({"x"}), NumBody(5)}

EventAttributes == {NoneBody, ObjBody([messageId |-> JStr("m1")]), ArrBody({"x"})}

CloudEvent(kind, message, attributes) == [data |-> [kind |-> kind, message |-> message, attributes |-> attributes]]
CloudEvents ==
    {CloudEvent("dict", m, a) : m \in Messages, a \in EventAttributes}
    \cup {CloudEvent(k, NoneBody, NoneBody) : k \in {"none", "str"}}

\* One event is delivered to the function.
ColdChainEvent ==
    /\ pc = "idle"
    /\ \E cloud_event \in CloudEvents :
          /\ request' = cloud_event
          /\ response' = cold_chain_alerter_function(cloud_event)
    /\ pc' = "done"
    /\ UNCHANGED <<env, calls, tables, uuids, served, process>>

InitAlert == Init
NextAlert == ColdChainEvent
SpecAlert == InitAlert /\ [][NextAlert]_vars

(***************************************************************************)
(* Properties of the alerter (SpecAlert)                                   *)
(***************************************************************************)
EventHandled == pc = "done" /\ DOMAIN request = {"data"}

\* the event carries a Pub/Sub message with a data field
HasPayload ==
    /\ request.data.kind = "dict"
    /\ request.data.message.kind = "object"
    /\ request.data.message.f["data"] # Absent
Payload == request.data.message.f["data"]

\* the data field is the base64 of the UTF-8 of the JSON of an object
PayloadIsObject ==
    /\ HasPayload
    /\ Payload.t = "str" /\ Payload.b64 = "valid"
    /\ Payload.bytes.utf8
    /\ Payload.bytes.text.json
    /\ Payload.bytes.text.value.kind = "object"
PayloadObject == Payload.bytes.text.value

\* the alerts among the lines printed, and the alert the severity field asks for
AlertLines == {"Shipment: HIGH TEMP", "Shipment: Elevated Temp", "Info Alert"}
AlertsEmitted == SelectSeq(response.printed, LAMBDA p : p.line \in AlertLines)
AlertDue ==
    CASE PayloadObject.f["severity"] = JStr("Critical") -> "Shipment: HIGH TEMP"
      [] PayloadObject.f["severity"] = JStr("Warning") -> "Shipment: Elevated Temp"
      [] OTHER -> "Info Alert"

\* the parts of C29 about what is printed
EventsClassified ==
    EventHandled =>
        /\ ~PayloadIsObject => AlertsEmitted = <<>>
        /\ (response.raised = "" /\ HasPayload /\ ~PayloadIsObject) =>
              response.printed[Len(response.printed)].line
                  \in {"Error processing message data", "Decoded Pub/Sub message data (Plain Text)"}
        /\ (response.raised = "" /\ PayloadIsObject) =>
              /\ Len(AlertsEmitted) = 1
              /\ AlertsEmitted[1].line = AlertDue

\* C29 as stated: the cold-chain alerter handles every Pub/Sub event without raising: an
\* event whose data is no dict, has no message, or whose message has no data is ignored;
\* a payload that is not valid base64, not UTF-8, not JSON or not a JSON object is logged
\* and dropped; a decoded JSON object is classified by its severity alone ('Critical',
\* 'Warning', anything else or nothing as info), with exactly one alert per message.
C29_EveryEventHandled ==
    /\ EventHandled => response.raised = ""
    /\ EventsClassified

\* the same for the events Pub/Sub itself builds: the message and the attributes are
\* objects or missing, the data is base64
EventOfPubsub ==
    /\ request.data.message.kind \in {"object", "none"}
    /\ request.data.attributes.kind \in {"object", "none"}
    /\ HasPayload => (Payload.t = "str" /\ Payload.b64 # "padding")
PubsubEventsHandled == (EventHandled /\ EventOfPubsub) => C29_EveryEventHandled

(***************************************************************************)
(* Properties of /prices/current and /forecast (Spec)                      *)
(***************************************************************************)
PricesAnswered ==
    /\ Done /\ request.service = "marketflow" /\ request.method = "POST" /\ request.path = "/prices/current"
    /\ Len(calls) = 1 /\ calls[1].exc = ""
ForecastAnswered ==
    /\ Done /\ request.service = "marketflow" /\ request.method = "POST" /\ request.path = "/forecast"
    /\ Len(calls) = 1 /\ calls[1].exc = ""

\* the region asked for, if one is given
RegionFits(row) == Sent("region") \in {Absent, Null, JStr("")} \/ row.region = Sent("region")

\* the stored prices and forecasts that are the ones asked for
PriceDay == IF Sent("date") = Absent THEN JStr(Today) ELSE Sent("date")
PricesAsked ==
    {i \in 1..Len(env.stored) :
        /\ env.stored[i].product_id = Sent("product_id")
        /\ env.stored[i].market_date = PriceDay
        /\ RegionFits(env.stored[i])}
ForecastsAsked ==
    {i \in 1..Len(env.stored) :
        /\ env.stored[i].product_id = Sent("product_id")
        /\ env.stored[i].target_date_start = Sent("target_date_start")
        /\ env.stored[i].target_date_end = Sent("target_date_end")
        /\ RegionFits(env.stored[i])}

\* C30: POST /prices/current and POST /forecast only read, and what they return is
\* bounded: /prices/current, for the date given or else today, answers 200 "success" with
\* at most one price row, one of those stored for the product, date and region, and with
\* an empty list and a message when none is stored; /forecast answers 200 "success" with
\* at most 5 rows, each stored for the requested product, start, end and, when given,
\* region; neither inserts a row.
C30_ReadOnlyAndBounded ==
    /\ (Done /\ request.service = "marketflow" /\ request.path \in {"/prices/current", "/forecast"}) =>
          /\ \A i \in 1..Len(calls) : calls[i].op = "query"
          /\ served[Len(served)].after = served[Len(served)].before
    /\ PricesAnswered =>
          LET prices == response.body.payload.prices
          IN  /\ response.status = 200
              /\ response.body.status = "success"
              /\ Len(prices) <= 1
              /\ \A k \in 1..Len(prices) : \E i \in PricesAsked : prices[k].price_record_id = env.stored[i].price_record_id
              /\ PricesAsked = {} <=> prices = <<>>
              /\ prices = <<>> => response.body.message.text = "No market price found"
    /\ ForecastAnswered =>
          LET forecasts == response.body.payload.forecasts
          IN  /\ response.status = 200
              /\ response.body.status = "success"
              /\ Len(forecasts) <= 5
              /\ \A k \in 1..Len(forecasts) :
                    \E i \in ForecastsAsked : forecasts[k].forecast_id = env.stored[i].forecast_id

\* six forecasts are stored for the period asked for and five are returned
C30_FiveOfSixForecasts ==
    /\ ForecastAnswered
    /\ Cardinality(ForecastsAsked) = 6
    /\ Len(response.body.payload.forecasts) = 5
====
